---- MODULE Spec2Model ----
(***************************************************************************)
(* Google Drive Image Scraper plugin: folder scan and canvas import.       *)
(*                                                                         *)
(* Model of src/code.ts (the consolidated plugin) and of the older         *)
(* PluginService / GoogleDriveService pair (src/src/plugin-service.js,     *)
(* src/unnamed/part_002).                                                  *)
(*                                                                         *)
(* JavaScript strings on which the code does character work (URLs, file    *)
(* names, MIME types, type tags) are sequences of one-character strings.   *)
(* null and undefined are one-element sequences whose element is no        *)
(* character, so that neither equals any string, the empty one included.   *)
(***************************************************************************)
EXTENDS Integers, Sequences, FiniteSets, TLC

VARIABLES
    callee,          \* pure-function harness: name of the last function applied
    callArgs,        \* pure-function harness: the arguments of the call
    returned,        \* pure-function harness: the values returned so far, in order
    scanImpl,        \* "code.ts" or "PluginService": the scanFolder that runs
    scanArgs,        \* folderUrl, allowedTypes, maxImages of the call
    scanPc,          \* idle, called, awaitFolderInfo, awaitListing, returned, rejected
    folderId,        \* scanFolder's local folderId
    folderInfo,      \* scanFolder's local folderInfo: <<>> (null) or <<info>>
    progressEvents,  \* the calls of progressCallback, in order
    requests,        \* the fetch requests issued, in order
    raised,          \* history: every failure raised during the call, in order
    caught,          \* history: the failure that reached scanFolder's catch block
    listingResponse, \* history: <<>> or <<the answer to the listing request>>
    folderInfoResponse, \* history: <<>> or <<the answer to the folder-info request>>
    scanOutcome,     \* <<>> or <<the ScanResult the call returned>>
    isInitialized,   \* GoogleDriveService.isInitialized
    importCall,      \* variant, images, options of the import call
    importPc,        \* idle, called, downloading, returned, rejected
    importIndex,     \* the loop variable i
    nodes,           \* the local nodes (slides in importToSlides): identifiers
    currentX,        \* the position cursor
    currentY,
    currentSlide,    \* importToSlides: the slide of the round, 0 before any
    created,         \* canvas: the nodes created, by identifier
    page,            \* canvas: identifiers appended to figma.currentPage, in order
    selection,       \* canvas: <<>> or <<the list assigned to the selection>>
    viewport,        \* canvas: initial, zoomed (scrollAndZoomIntoView), grid
    importProgress,  \* the percents handed to progressCallback, in order
    downloads,       \* the download requests issued, in order
    itemThrown,      \* history: per record handled, <<>> or <<the failure caught>>
    outerThrown,     \* history: <<>> or <<the failure caught by the outer catch>>
    importOutcome,   \* <<>> or <<the ImportResult the call returned>>
    answers,         \* history: the answer each record's download got
    secondCall,      \* a second import call in progress: its call and locals
    editorType,      \* figma.editorType: figma, figjam, slides
    received,        \* the message figma.ui.onmessage is handling
    handlerPc,       \* idle, awaiting (scanFolder or the import), done, rejected
    posted,          \* the messages posted to the UI for this message, in order
    ui               \* ui.html: its buttons, the requests it sent, its inbox

null == <<"null">>

undefined == <<"undefined">>

(***************************************************************************)
(* Bounds of the model.                                                    *)
(***************************************************************************)
MaxIdLen == 2

MaxFiles == 3

MaxListing == 3

MaxImagesArg == 3

MaxNegativeArg == 1

MaxImport == 3

MaxSinkCalls == 3

MaxClicks == 4

\* Program constants.
pageSize == 100

DefaultMaxImagesInput == 10

\* Every sequence over S of length at most n.
RECURSIVE SeqsUpTo(_, _)
SeqsUpTo(S, n) ==
    IF n = 0 THEN {<<>>}
    ELSE LET shorter == SeqsUpTo(S, n - 1)
         IN  shorter \cup {Append(s, x) : s \in shorter, x \in S}

(***************************************************************************)
(* String helpers: String.prototype.toLowerCase / endsWith.                *)
(***************************************************************************)
LowerLetters ==
    {"a", "b", "c", "d", "e", "f", "g", "h", "i", "j", "k", "l", "m",
     "n", "o", "p", "q", "r", "s", "t", "u", "v", "w", "x", "y", "z"}

UpperLetters ==
    {"A", "B", "C", "D", "E", "F", "G", "H", "I", "J", "K", "L", "M",
     "N", "O", "P", "Q", "R", "S", "T", "U", "V", "W", "X", "Y", "Z"}

Digits == {"0", "1", "2", "3", "4", "5", "6", "7", "8", "9"}

LowerChar(c) ==
    CASE c = "A" -> "a" [] c = "B" -> "b" [] c = "C" -> "c" [] c = "D" -> "d"
      [] c = "E" -> "e" [] c = "F" -> "f" [] c = "G" -> "g" [] c = "H" -> "h"
      [] c = "I" -> "i" [] c = "J" -> "j" [] c = "K" -> "k" [] c = "L" -> "l"
      [] c = "M" -> "m" [] c = "N" -> "n" [] c = "O" -> "o" [] c = "P" -> "p"
      [] c = "Q" -> "q" [] c = "R" -> "r" [] c = "S" -> "s" [] c = "T" -> "t"
      [] c = "U" -> "u" [] c = "V" -> "v" [] c = "W" -> "w" [] c = "X" -> "x"
      [] c = "Y" -> "y" [] c = "Z" -> "z" [] OTHER -> c

toLowerCase(s) == [k \in 1..Len(s) |-> LowerChar(s[k])]

endsWith(s, suffix) ==
    /\ Len(suffix) <= Len(s)
    /\ SubSeq(s, Len(s) - Len(suffix) + 1, Len(s)) = suffix

(***************************************************************************)
(* extractFolderId: the ordered regular expressions and their matching.    *)
(* A pattern is the sequence of character classes that precedes its        *)
(* capture group; every capture group is ([a-zA-Z0-9-_]+).                 *)
(***************************************************************************)
IdChars == LowerLetters \cup UpperLetters \cup Digits \cup {"-", "_"}

Lit(s) == [k \in 1..Len(s) |-> {s[k]}]

patterns ==
    << \* /\/folders\/([a-zA-Z0-9-_]+)/
       Lit(<<"/", "f", "o", "l", "d", "e", "r", "s", "/">>),
       \* /[?&]id=([a-zA-Z0-9-_]+)/
       <<{"?", "&"}>> \o Lit(<<"i", "d", "=">>),
       \* /\/drive\/folders\/([a-zA-Z0-9-_]+)/
       Lit(<<"/", "d", "r", "i", "v", "e", "/", "f", "o", "l", "d", "e", "r", "s", "/">>),
       \* /\/open\?id=([a-zA-Z0-9-_]+)/
       Lit(<<"/", "o", "p", "e", "n", "?", "i", "d", "=">>) >>

\* The pattern's prefix stands at position p of url and one identifier
\* character at least follows it.
MatchesAt(url, pre, p) ==
    /\ p + Len(pre) <= Len(url)
    /\ \A k \in 1..Len(pre) : url[p + k - 1] \in pre[k]
    /\ url[p + Len(pre)] \in IdChars

\* The greedy capture: the longest run of identifier characters from q on.
RECURSIVE IdRun(_, _)
IdRun(url, q) ==
    IF q <= Len(url) /\ url[q] \in IdChars
    THEN <<url[q]>> \o IdRun(url, q + 1)
    ELSE <<>>

\* url.match(pattern)[1]: the capture of the leftmost match at or after p,
\* null when the pattern matches nowhere.
RECURSIVE regexMatch(_, _, _)
regexMatch(url, pre, p) ==
    IF p + Len(pre) > Len(url) THEN null
    ELSE IF MatchesAt(url, pre, p) THEN IdRun(url, p + Len(pre))
    ELSE regexMatch(url, pre, p + 1)

\* for (const pattern of patterns) {
\*   const match = url.match(pattern); if (match && match[1]) return match[1]; }
\* return null
RECURSIVE firstCapture(_, _, _)
firstCapture(url, pats, k) ==
    IF k > Len(pats) THEN null
    ELSE LET match == regexMatch(url, pats[k], 1)
         IN  IF match # null /\ match # <<>> THEN match
             ELSE firstCapture(url, pats, k + 1)

\* A capture that stops one character short of the greedy run.
extractFolderId_lazyCapture(url) ==
    LET id == firstCapture(url, patterns, 1)
    IN  IF id # null /\ Len(id) > 1 THEN SubSeq(id, 1, Len(id) - 1) ELSE id

\* The id= pattern tried before the /folders/ pattern.
extractFolderId_idFirst(url) ==
    firstCapture(url, <<patterns[2], patterns[1], patterns[3], patterns[4]>>, 1)

extractFolderId(url) == firstCapture(url, patterns, 1)

\* GoogleDriveService.extractFolderId: the same four patterns in the same order.
DriveService_extractFolderId(url) == firstCapture(url, patterns, 1)

(***************************************************************************)
(* filterImageFiles.                                                       *)
(***************************************************************************)
\* FILE_TYPE_MAPPINGS[type]: undefined for a key the object does not hold.
FILE_TYPE_MAPPINGS(type) ==
    CASE type = <<"j", "p", "g">> ->
           << <<"i", "m", "a", "g", "e", "/", "j", "p", "e", "g">>,
              <<"i", "m", "a", "g", "e", "/", "j", "p", "g">> >>
      [] type = <<"j", "p", "e", "g">> ->
           << <<"i", "m", "a", "g", "e", "/", "j", "p", "e", "g">>,
              <<"i", "m", "a", "g", "e", "/", "j", "p", "g">> >>
      [] type = <<"p", "n", "g">> ->
           << <<"i", "m", "a", "g", "e", "/", "p", "n", "g">> >>
      [] type = <<"g", "i", "f">> ->
           << <<"i", "m", "a", "g", "e", "/", "g", "i", "f">> >>
      [] type = <<"s", "v", "g">> ->
           << <<"i", "m", "a", "g", "e", "/", "s", "v", "g", "+", "x", "m", "l">>,
              <<"t", "e", "x", "t", "/", "x", "m", "l">> >>
      [] type = <<"w", "e", "b", "p">> ->
           << <<"i", "m", "a", "g", "e", "/", "w", "e", "b", "p">> >>
      [] type = <<"b", "m", "p">> ->
           << <<"i", "m", "a", "g", "e", "/", "b", "m", "p">>,
              <<"i", "m", "a", "g", "e", "/", "x", "-", "m", "s", "-", "b", "m", "p">> >>
      [] type = <<"t", "i", "f", "f">> ->
           << <<"i", "m", "a", "g", "e", "/", "t", "i", "f", "f">>,
              <<"i", "m", "a", "g", "e", "/", "t", "i", "f">> >>
      [] type = <<"i", "c", "o">> ->
           << <<"i", "m", "a", "g", "e", "/", "x", "-", "i", "c", "o", "n">>,
              <<"i", "m", "a", "g", "e", "/", "v", "n", "d", ".", "m", "i", "c", "r", "o", "s", "o", "f", "t", ".", "i", "c", "o", "n">> >>
      [] OTHER -> undefined

\* GoogleDriveService.filterImageFiles: its own, shorter table.
imageExtensions(type) ==
    CASE type = <<"j", "p", "g">> ->
           << <<"i", "m", "a", "g", "e", "/", "j", "p", "e", "g">>,
              <<"i", "m", "a", "g", "e", "/", "j", "p", "g">> >>
      [] type = <<"j", "p", "e", "g">> ->
           << <<"i", "m", "a", "g", "e", "/", "j", "p", "e", "g">>,
              <<"i", "m", "a", "g", "e", "/", "j", "p", "g">> >>
      [] type = <<"p", "n", "g">> ->
           << <<"i", "m", "a", "g", "e", "/", "p", "n", "g">> >>
      [] type = <<"g", "i", "f">> ->
           << <<"i", "m", "a", "g", "e", "/", "g", "i", "f">> >>
      [] type = <<"s", "v", "g">> ->
           << <<"i", "m", "a", "g", "e", "/", "s", "v", "g", "+", "x", "m", "l">> >>
      [] type = <<"w", "e", "b", "p">> ->
           << <<"i", "m", "a", "g", "e", "/", "w", "e", "b", "p">> >>
      [] type = <<"b", "m", "p">> ->
           << <<"i", "m", "a", "g", "e", "/", "b", "m", "p">> >>
      [] type = <<"t", "i", "f", "f">> ->
           << <<"i", "m", "a", "g", "e", "/", "t", "i", "f", "f">> >>
      [] OTHER -> undefined

\* Array.prototype.indexOf, 0-based, -1 when absent.
indexOf(arr, x) ==
    IF \E k \in 1..Len(arr) : arr[k] = x
    THEN (CHOOSE k \in 1..Len(arr) :
             arr[k] = x /\ \A j \in 1..(k - 1) : arr[j] # x) - 1
    ELSE -1

validMimeTypesOf(impl, type) ==
    IF impl = "code.ts" THEN FILE_TYPE_MAPPINGS(type) ELSE imageExtensions(type)

\* First loop of the filter callback: "Check by MIME type first".
RECURSIVE mimeTypeLoop(_, _, _, _)
mimeTypeLoop(impl, mimeType, allowedTypes, k) ==
    IF k > Len(allowedTypes) THEN FALSE
    ELSE LET validMimeTypes == validMimeTypesOf(impl, toLowerCase(allowedTypes[k]))
         IN  IF validMimeTypes # undefined /\ indexOf(validMimeTypes, mimeType) # -1
             THEN TRUE
             ELSE mimeTypeLoop(impl, mimeType, allowedTypes, k + 1)

\* Second loop of the filter callback: "Fallback: check by file extension".
RECURSIVE extensionLoop(_, _, _)
extensionLoop(fileName, allowedTypes, k) ==
    IF k > Len(allowedTypes) THEN FALSE
    ELSE IF endsWith(fileName, <<".">> \o toLowerCase(allowedTypes[k])) THEN TRUE
    ELSE extensionLoop(fileName, allowedTypes, k + 1)

\* The callback handed to files.filter.
filterCallback(impl, file, allowedTypes) ==
    LET fileName == toLowerCase(file.name)
        mimeType == toLowerCase(file.mimeType)
    IN  IF mimeTypeLoop(impl, mimeType, allowedTypes, 1) THEN TRUE
        ELSE IF extensionLoop(fileName, allowedTypes, 1) THEN TRUE
        ELSE FALSE

\* Array.prototype.filter from index k on.
RECURSIVE arrayFilter(_, _, _, _)
arrayFilter(impl, files, allowedTypes, k) ==
    IF k > Len(files) THEN <<>>
    ELSE IF filterCallback(impl, files[k], allowedTypes)
         THEN <<files[k]>> \o arrayFilter(impl, files, allowedTypes, k + 1)
         ELSE arrayFilter(impl, files, allowedTypes, k + 1)

\* file.name.toLowerCase() / file.mimeType.toLowerCase() on a record that
\* lacks the property: the callback throws a TypeError.
filterThrows(files) ==
    \E k \in 1..Len(files) :
        files[k].name = undefined \/ files[k].mimeType = undefined

\* The extension fallback tried only for the tags that have no MIME table.
RECURSIVE extensionLoop_unmappedOnly(_, _, _)
extensionLoop_unmappedOnly(fileName, allowedTypes, k) ==
    IF k > Len(allowedTypes) THEN FALSE
    ELSE IF /\ FILE_TYPE_MAPPINGS(toLowerCase(allowedTypes[k])) = undefined
            /\ endsWith(fileName, <<".">> \o toLowerCase(allowedTypes[k]))
         THEN TRUE
         ELSE extensionLoop_unmappedOnly(fileName, allowedTypes, k + 1)

filterImageFiles_unmappedOnly(files, allowedTypes) ==
    SelectSeq(files, LAMBDA file :
        \/ mimeTypeLoop("code.ts", toLowerCase(file.mimeType), allowedTypes, 1)
        \/ extensionLoop_unmappedOnly(toLowerCase(file.name), allowedTypes, 1))

\* Removal in place while iterating forward: the element that follows a
\* removed one is stepped over and stays.
RECURSIVE spliceWhileIterating(_, _, _)
spliceWhileIterating(files, allowedTypes, k) ==
    IF k > Len(files) THEN <<>>
    ELSE IF filterCallback("code.ts", files[k], allowedTypes)
         THEN <<files[k]>> \o spliceWhileIterating(files, allowedTypes, k + 1)
         ELSE IF k + 1 <= Len(files)
              THEN <<files[k + 1]>> \o spliceWhileIterating(files, allowedTypes, k + 2)
              ELSE <<>>

filterImageFiles_splice(files, allowedTypes) ==
    spliceWhileIterating(files, allowedTypes, 1)

filterImageFiles(files, allowedTypes) == arrayFilter("code.ts", files, allowedTypes, 1)

DriveService_filterImageFiles(files, allowedTypes) ==
    arrayFilter("drive-api", files, allowedTypes, 1)

(***************************************************************************)
(* Files of a listing.  A raw entry is what the Drive API returns for one  *)
(* file; the fields the code only copies (size, thumbnailLink,             *)
(* webViewLink, createdTime, modifiedTime) are left out.                   *)
(***************************************************************************)
RawPngBoth ==
    [id |-> "png-both", name |-> <<"a", ".", "p", "n", "g">>,
     mimeType |-> <<"i", "m", "a", "g", "e", "/", "p", "n", "g">>]

\* MIME type alone, in upper case, no extension.
RawPngMimeOnly ==
    [id |-> "png-mime", name |-> <<"s", "c", "a", "n">>,
     mimeType |-> <<"I", "M", "A", "G", "E", "/", "P", "N", "G">>]

\* Extension alone, in upper case.
RawJpgExtOnly ==
    [id |-> "jpg-ext", name |-> <<"B", ".", "J", "P", "G">>,
     mimeType |-> <<"a", "p", "p", "l", "i", "c", "a", "t", "i", "o", "n", "/",
                    "o", "c", "t", "e", "t", "-", "s", "t", "r", "e", "a", "m">>]

\* No image: the name ends with "png" but not with ".png".
RawText ==
    [id |-> "text", name |-> <<"a", "p", "n", "g">>,
     mimeType |-> <<"t", "e", "x", "t", "/", "p", "l", "a", "i", "n">>]

\* text/xml: an svg MIME type for code.ts, none for GoogleDriveService.
RawXml ==
    [id |-> "xml", name |-> <<"v">>,
     mimeType |-> <<"t", "e", "x", "t", "/", "x", "m", "l">>]

\* A type no table knows.
RawHeic ==
    [id |-> "heic", name |-> <<"p", ".", "h", "e", "i", "c">>,
     mimeType |-> <<"i", "m", "a", "g", "e", "/", "h", "e", "i", "c">>]

\* An entry without a name.
RawNameless ==
    [id |-> "nameless", name |-> undefined,
     mimeType |-> <<"i", "m", "a", "g", "e", "/", "p", "n", "g">>]

WellFormedRawFiles ==
    {RawPngBoth, RawPngMimeOnly, RawJpgExtOnly, RawText, RawXml, RawHeic}

\* A mapping that takes the download URL from the listing, which does not
\* carry one.
toDriveFile_linkFromListing(file) ==
    [id |-> file.id,
     name |-> file.name,
     mimeType |-> file.mimeType,
     downloadUrl |-> undefined]

\* The mapping of scanGoogleDriveFolder: raw entry to DriveFile, the
\* download URL being a template of the identifier.
toDriveFile(file) ==
    [id |-> file.id,
     name |-> file.name,
     mimeType |-> file.mimeType,
     downloadUrl |-> <<"https://drive.google.com/uc?export=download&id=", file.id>>]

toDriveFiles(files) == [k \in 1..Len(files) |-> toDriveFile(files[k])]

TagJpg == <<"j", "p", "g">>
TagPng == <<"p", "n", "g">>
TagSvg == <<"s", "v", "g">>
TagWebp == <<"w", "e", "b", "p">>

\* Tag lists: what the four checkboxes of the UI can send, and lists a
\* caller of the function can pass (upper case, a tag without table).
TagLists ==
    { <<>>,
      <<TagPng>>,
      <<TagJpg, TagPng>>,
      <<TagSvg>>,
      <<TagJpg, TagPng, TagSvg, TagWebp>>,
      <<(<<"P", "N", "G">>)>>,
      <<(<<"h", "e", "i", "c">>)>> }

FileLists == {toDriveFiles(l) : l \in SeqsUpTo(WellFormedRawFiles, MaxFiles)}

(***************************************************************************)
(* Thrown values and messages.  A message is the sequence of the parts of  *)
(* its template literal.                                                   *)
(***************************************************************************)
Error(message) == [isError |-> TRUE, message |-> message]

\* A thrown value that is no instance of Error.
NonError == [isError |-> FALSE, message |-> undefined]

INVALID_URL ==
    <<"Invalid Google Drive folder URL. Please check the URL and try again.">>

FOLDER_NOT_FOUND ==
    <<"Folder not found or not accessible. Make sure the folder is publicly shared.">>

\* What the engine throws for file.name.toLowerCase() on undefined.
TypeErrorToLowerCase ==
    Error(<<"Cannot read properties of undefined (reading 'toLowerCase')">>)

\* What response.json() rejects with on a body that is no JSON.
SyntaxErrorJson == Error(<<"Unexpected token < in JSON at position 0">>)

Throw(e) == [threw |-> TRUE, error |-> e]

Return(v) == [threw |-> FALSE, value |-> v]

(***************************************************************************)
(* Network: the answers one fetch can get.                                 *)
(***************************************************************************)
Rejected(reason) == [type |-> "rejected", reason |-> reason]

Response(status, statusText, body) ==
    [type |-> "response", status |-> status, statusText |-> statusText, body |-> body]

\* response.ok
ok(response) == response.status >= 200 /\ response.status <= 299

FetchRejections == {Error(<<"Failed to fetch">>), NonError}

ErrorStatuses ==
    { [status |-> 401, statusText |-> "Unauthorized"],
      [status |-> 403, statusText |-> "Forbidden"],
      [status |-> 404, statusText |-> "Not Found"],
      [status |-> 500, statusText |-> "Internal Server Error"] }

NoBody == [parses |-> FALSE, hasFiles |-> FALSE, files |-> <<>>, nextPageToken |-> undefined]

ListingBody(hasFiles, files, nextPageToken) ==
    [parses |-> TRUE, hasFiles |-> hasFiles, files |-> files,
     nextPageToken |-> nextPageToken]

\* The listing of the scenario of the contract: 12 PNG/JPG files and 3 files
\* that are no images.
ScenarioListing ==
    << RawPngBoth, RawJpgExtOnly, RawText, RawPngMimeOnly, RawPngBoth,
       RawJpgExtOnly, RawPngBoth, RawText, RawPngMimeOnly, RawJpgExtOnly,
       RawPngBoth, RawPngBoth, RawText, RawJpgExtOnly, RawPngMimeOnly >>

ListedRawFiles == {RawPngBoth, RawJpgExtOnly, RawText, RawNameless}

Listings == SeqsUpTo(ListedRawFiles, MaxListing) \cup {ScenarioListing}

ListingResponses ==
    {Rejected(e) : e \in FetchRejections}
    \cup {Response(s.status, s.statusText, NoBody) : s \in ErrorStatuses}
    \cup {Response(200, "OK", NoBody)}
    \cup {Response(200, "OK", ListingBody(FALSE, <<>>, undefined))}
    \cup {Response(200, "OK", ListingBody(TRUE, l, t)) :
             l \in Listings, t \in {undefined, <<"page-2">>}}

FolderInfoBody(name) == [parses |-> TRUE, name |-> name]

FolderInfoResponses ==
    {Rejected(Error(<<"Failed to fetch">>))}
    \cup {Response(404, "Not Found", [parses |-> FALSE, name |-> undefined])}
    \cup {Response(200, "OK", [parses |-> FALSE, name |-> undefined])}
    \cup {Response(200, "OK", FolderInfoBody(<<"Photos">>))}

(***************************************************************************)
(* scanGoogleDriveFolder (code.ts) and GoogleDriveService.scanFolder:      *)
(* what the function does with the answer to its one listing request.      *)
(***************************************************************************)
listingRequest(id, pageToken) ==
    [api |-> "files.list", folderId |-> id, pageSize |-> pageSize,
     pageToken |-> pageToken]

folderInfoRequest(id) ==
    [api |-> "files.get", folderId |-> id, pageSize |-> 0, pageToken |-> undefined]

\* Lines 532-551: response.json(), the mapping to DriveFile, the result.
listingResult(response) ==
    IF ~response.body.parses THEN Throw(SyntaxErrorJson)
    ELSE Return([files |-> toDriveFiles(IF response.body.hasFiles
                                        THEN response.body.files ELSE <<>>),
                 nextPageToken |-> response.body.nextPageToken,
                 incompleteSearch |-> FALSE])

\* scanGoogleDriveFolder reporting a failed request without its status.
scanGoogleDriveFolder_plainMessage(response) ==
    IF response.type = "rejected" THEN Throw(response.reason)
    ELSE IF ~ok(response)
         THEN IF response.status = 401 \/ response.status = 403
              THEN Throw(Error(FOLDER_NOT_FOUND))
              ELSE Throw(Error(<<"API request failed">>))
         ELSE listingResult(response)

scanGoogleDriveFolder(response) ==
    IF response.type = "rejected" THEN Throw(response.reason)
    ELSE IF ~ok(response)
         THEN IF response.status = 401 \/ response.status = 403
              THEN Throw(Error(FOLDER_NOT_FOUND))
              ELSE Throw(Error(<<"API request failed: ", ToString(response.status),
                                 " ", response.statusText>>))
         ELSE listingResult(response)

\* GoogleDriveService.scanPublicFolder: the fallback returns an empty listing.
scanPublicFolder ==
    Return([files |-> <<>>, nextPageToken |-> undefined, incompleteSearch |-> TRUE])

DriveService_scanFolder(response) ==
    IF response.type = "rejected" THEN Throw(response.reason)
    ELSE IF ~ok(response)
         THEN IF response.status = 401 \/ response.status = 403
              THEN scanPublicFolder
              ELSE Throw(Error(<<"API request failed: ", ToString(response.status),
                                 " ", response.statusText>>))
         ELSE listingResult(response)

\* getFolderInfo reading the body of any answer, whatever its status.
getFolderInfo_noStatusCheck(response) ==
    IF response.type = "rejected" THEN <<>>
    ELSE <<[name |-> response.body.name]>>

\* getFolderInfo: null (the empty option) on every failure.
getFolderInfo(response) ==
    IF response.type = "rejected" THEN <<>>
    ELSE IF ~ok(response) THEN <<>>
    ELSE IF ~response.body.parses THEN <<>>
    ELSE <<[name |-> response.body.name]>>

\* A failure and the stage of the scan that raised it.
Raised(stage, failure) == [stage |-> stage, failure |-> failure]

\* The failures raised inside getFolderInfo (all of them caught there).
folderInfoFailures(response) ==
    IF response.type = "rejected" THEN <<Raised("folderInfo", response.reason)>>
    ELSE IF ok(response) /\ ~response.body.parses
         THEN <<Raised("folderInfo", SyntaxErrorJson)>>
         ELSE <<>>

(***************************************************************************)
(* scanFolder (code.ts) and PluginService.scanFolder.                      *)
(***************************************************************************)
Min(a, b) == IF a < b THEN a ELSE b

Max(a, b) == IF a > b THEN a ELSE b

\* Array.prototype.slice(0, end) for an integer end: a negative end counts
\* from the end of the array.
slice(arr, end) ==
    LET len == Len(arr)
        final == IF end < 0 THEN Max(len + end, 0) ELSE Min(end, len)
    IN  SubSeq(arr, 1, final)

\* A catch block that reports no message.
scanFailure_noMessage(error) ==
    [success |-> FALSE, images |-> <<>>, totalFound |-> 0]

\* The catch block of scanFolder (lines 681-690).
scanFailure(error) ==
    [success |-> FALSE,
     images |-> <<>>,
     error |-> IF error.isError THEN error.message ELSE <<"Unknown error occurred">>,
     totalFound |-> 0]

\* The early return on a URL without identifier (lines 634-641).
invalidUrlResult ==
    [success |-> FALSE, images |-> <<>>, error |-> INVALID_URL, totalFound |-> 0]

\* A success result that reports the truncated count as totalFound.
scanSuccess_countAfterLimit(imageFiles, limitedImages, info) ==
    [success |-> TRUE,
     images |-> limitedImages,
     totalFound |-> Len(limitedImages),
     folderName |-> IF info = <<>> THEN undefined ELSE info[1].name]

\* The success result (lines 675-680).
scanSuccess(imageFiles, limitedImages, info) ==
    [success |-> TRUE,
     images |-> limitedImages,
     totalFound |-> Len(imageFiles),
     folderName |-> IF info = <<>> THEN undefined ELSE info[1].name]

listFolder(impl, response) ==
    IF impl = "code.ts" THEN scanGoogleDriveFolder(response)
    ELSE DriveService_scanFolder(response)

filterOf(impl, files, allowedTypes) ==
    IF impl = "code.ts" THEN filterImageFiles(files, allowedTypes)
    ELSE DriveService_filterImageFiles(files, allowedTypes)

\* Calls of scanFolder's progressCallback as the log keeps them: the percent
\* handed over and the number of requests issued before the call.
emitted(percents, issued) ==
    [k \in 1..Len(percents) |-> [percent |-> percents[k], requests |-> Len(issued)]]

\* A scan that reports the filtering stage only once the filter has run.
afterListing_lateProgress(impl, args, info, response) ==
    LET scanResult == listFolder(impl, response)
    IN  IF scanResult.threw
        THEN [thrown |-> <<scanResult.error>>, stage |-> "listing",
              progress |-> <<>>, result |-> <<>>]
        ELSE IF filterThrows(scanResult.value.files)
        THEN [thrown |-> <<TypeErrorToLowerCase>>, stage |-> "filter",
              progress |-> <<>>, result |-> <<>>]
        ELSE LET imageFiles == filterOf(impl, scanResult.value.files, args.allowedTypes)
                 limitedImages == slice(imageFiles, args.maxImages)
             IN  [thrown |-> <<>>, stage |-> "none", progress |-> <<60, 80, 100>>,
                  result |-> <<scanSuccess(imageFiles, limitedImages, info)>>]

\* The rest of scanFolder's try block once the listing request is answered
\* (lines 655-680): the value returned, the failure thrown inside the try
\* block if any, and the progress events emitted.
afterListing(impl, args, info, response) ==
    LET scanResult == listFolder(impl, response)
    IN  IF scanResult.threw
        THEN [thrown |-> <<scanResult.error>>, stage |-> "listing",
              progress |-> <<>>, result |-> <<>>]
        ELSE IF filterThrows(scanResult.value.files)
        THEN [thrown |-> <<TypeErrorToLowerCase>>, stage |-> "filter",
              progress |-> <<60>>, result |-> <<>>]
        ELSE LET imageFiles == filterOf(impl, scanResult.value.files, args.allowedTypes)
                 limitedImages == slice(imageFiles, args.maxImages)
             IN  [thrown |-> <<>>, stage |-> "none", progress |-> <<60, 80, 100>>,
                  result |-> <<scanSuccess(imageFiles, limitedImages, info)>>]

(***************************************************************************)
(* downloadFile and the three import functions of code.ts.  A node of the  *)
(* canvas is a record of the properties the code sets on it; nodes are     *)
(* referred to by their identifier, the rank of their creation.            *)
(***************************************************************************)
\* The retry configuration of API_CONFIG; no function reads it.
API_CONFIG == [maxRetries |-> 3, retryDelay |-> 1000]

DEFAULT_IMPORT_SETTINGS ==
    [maxImages |-> 50, imageSize |-> 200, spacing |-> 20, imagesPerRow |-> 3,
     createComponents |-> FALSE, preserveAspectRatio |-> TRUE]

\* { ...DEFAULT_IMPORT_SETTINGS, ...options }
spread(defaults, options) ==
    [k \in DOMAIN defaults \cup DOMAIN options |->
        IF k \in DOMAIN options THEN options[k] ELSE defaults[k]]

\* !file.downloadUrl
hasNoDownloadUrl(file) == file.downloadUrl \in {undefined, null, <<>>}

\* The answer to the one request of downloadFile: the bytes of the body are
\* an image the canvas can decode, or they are not.
DownloadAnswers ==
    { Rejected(Error(<<"Failed to fetch">>)),
      Response(404, "Not Found", [bytes |-> "none"]),
      Response(200, "OK", [bytes |-> "image"]),
      Response(200, "OK", [bytes |-> "garbage"]) }

\* No request was issued for the record.
NoRequest == [type |-> "none"]

downloadFile(file, answer) ==
    IF hasNoDownloadUrl(file)
    THEN Throw(Error(<<"No download URL available for ">> \o file.name))
    ELSE IF answer.type = "rejected" THEN Throw(answer.reason)
    ELSE IF ~ok(answer)
         THEN Throw(Error(<<"Download failed: ", ToString(answer.status), " ",
                            answer.statusText>>))
         ELSE Return(answer.body.bytes)

\* What figma.createImage throws on bytes that are no image.
CreateImageError == Error(<<"Image type is unsupported">>)

\* What a sink (progress callback, selection, viewport) throws when it fails.
SinkError == Error(<<"sink failed">>)

RectangleNode(id, name, x, y, width, height) ==
    [id |-> id, type |-> "RECTANGLE", name |-> name, x |-> x, y |-> y,
     width |-> width, height |-> height]

ComponentNode(id, name, x, y, children) ==
    [id |-> id, type |-> "COMPONENT", name |-> name, x |-> x, y |-> y,
     children |-> children]

StickyNode(id, characters, x, y) ==
    [id |-> id, type |-> "STICKY", characters |-> characters, x |-> x, y |-> y]

SlideNode(id, name, width, height, children) ==
    [id |-> id, type |-> "SLIDE", name |-> name, width |-> width,
     height |-> height, children |-> children]

\* (i / images.length) * 100, kept exact as a fraction.
percent(i, total) == [num |-> i * 100, den |-> total]

\* A percent given as a literal.
whole(p) == [num |-> p, den |-> 1]

\* A call of progressCallback as the log keeps it: the percent handed over
\* and the position of the call in the run, as the number of download
\* requests issued and of records handled before it.
progressEvent(L, p) ==
    [percent |-> p, requests |-> Len(L.downloads), handled |-> Len(L.itemThrown)]

fallbackMessage(variant) ==
    CASE variant = "importToFigma" -> <<"Import failed">>
      [] variant = "importToFigJam" -> <<"FigJam import failed">>
      [] variant = "importToSlides" -> <<"Slides import failed">>

\* The result of the outer catch block.
importFailure(variant, error) ==
    [success |-> FALSE,
     importedCount |-> 0,
     error |-> IF error.isError THEN error.message ELSE fallbackMessage(variant),
     nodes |-> <<>>]

\* A result that counts every node, the two of a FigJam record included.
importSuccess_nodeCount(variant, nodeList) ==
    [success |-> TRUE, importedCount |-> Len(nodeList), nodes |-> nodeList]

\* A result that counts two nodes per record in every variant.
importSuccess_halved(variant, nodeList) ==
    [success |-> TRUE, importedCount |-> Len(nodeList) \div 2, nodes |-> nodeList]

\* The result returned after the loop.
importSuccess(variant, nodeList) ==
    [success |-> TRUE,
     importedCount |-> IF variant = "importToFigJam"
                       THEN Len(nodeList) \div 2 ELSE Len(nodeList),
     nodes |-> nodeList]

\* A loop that tries a failed record again.
nextIndex_retryOnFailure(i, total, failed) == IF failed THEN i ELSE i + 1

\* A loop that stops at the first record that fails.
nextIndex_breakOnFailure(i, total, failed) == IF failed THEN total ELSE i + 1

\* i++ of the for loop: the per-record catch block lets the loop go on.
nextIndex(i, total, failed) == i + 1

\* failure.at is the number of the sink call, among those a step makes
\* outside the per-record try block, that throws (0: none does), and
\* failure.value is what it throws.
sinkThrows(L, failure) == L.calls + 1 = failure.at

sinkCalled(L) == [L EXCEPT !.calls = @ + 1]

\* An outer try block without its catch: the failure leaves the function.
outerCatch_rethrow(variant, L, error) ==
    [L EXCEPT !.pc = "rejected", !.outerThrown = <<error>>]

\* The outer catch block.
outerCatch(variant, L, error) ==
    [L EXCEPT !.pc = "returned",
              !.outerThrown = <<error>>,
              !.outcome = <<importFailure(variant, error)>>]

\* The per-record catch block: the failure is logged, nothing else happens.
itemCatch(L, error) == [L EXCEPT !.itemThrown = Append(@, <<error>>)]

\* A tail that assigns the selection and moves the viewport whether or not
\* a node was collected.
finish_selectAlways(variant, L, failure) ==
    LET L1 == sinkCalled([L EXCEPT !.selection = <<L.nodes>>])
        L2 == sinkCalled([L1 EXCEPT !.viewport = IF variant = "importToSlides"
                                                  THEN "grid" ELSE "zoomed"])
    IN  IF sinkThrows(L, failure)
        THEN outerCatch(variant, sinkCalled(L), failure.value)
        ELSE IF sinkThrows(L1, failure)
        THEN outerCatch(variant, sinkCalled(L1), failure.value)
        ELSE IF sinkThrows(L2, failure)
        THEN outerCatch(variant, sinkCalled(L2), failure.value)
        ELSE [sinkCalled(L2) EXCEPT
                 !.progress = Append(@, progressEvent(L2, whole(100))),
                 !.pc = "returned",
                 !.outcome = <<importSuccess(variant, L2.nodes)>>]

\* After the loop: the selection, the viewport, the 100% event, the result.
\* Each of the three calls may throw; the ones before it have had their
\* effect.
finish(variant, L, failure) ==
    LET selects == Len(L.nodes) > 0
        L1 == IF selects
              THEN sinkCalled([L EXCEPT !.selection = <<L.nodes>>])
              ELSE L
        L2 == IF selects
              THEN sinkCalled([L1 EXCEPT !.viewport = IF variant = "importToSlides"
                                                      THEN "grid" ELSE "zoomed"])
              ELSE L
    IN  IF selects /\ sinkThrows(L, failure)
        THEN outerCatch(variant, sinkCalled(L), failure.value)
        ELSE IF selects /\ sinkThrows(L1, failure)
        THEN outerCatch(variant, sinkCalled(L1), failure.value)
        ELSE IF sinkThrows(L2, failure)
        THEN outerCatch(variant, sinkCalled(L2), failure.value)
        ELSE [sinkCalled(L2) EXCEPT
                 !.progress = Append(@, progressEvent(L2, whole(100))),
                 !.pc = "returned",
                 !.outcome = <<importSuccess(variant, L2.nodes)>>]

\* A round that starts the download before it reports the record's progress.
beginItem_downloadFirst(variant, images, L, failure, slideSize) ==
    IF L.i >= Len(images) THEN finish(variant, L, failure)
    ELSE IF sinkThrows(L, failure)
    THEN outerCatch(variant, sinkCalled(L), failure.value)
    ELSE LET image == images[L.i + 1]
             L1 == IF hasNoDownloadUrl(image) THEN L
                   ELSE [L EXCEPT !.downloads = Append(@, image.downloadUrl)]
             L2 == [sinkCalled(L1) EXCEPT
                       !.progress = Append(@, progressEvent(L1, percent(L.i, Len(images))))]
             L3 == IF variant = "importToSlides"
                   THEN [L2 EXCEPT
                            !.slide = Len(L2.created) + 1,
                            !.created = Append(@, SlideNode(Len(L2.created) + 1,
                                                   image.name, slideSize.width,
                                                   slideSize.height, <<>>))]
                   ELSE L2
         IN  [L3 EXCEPT !.pc = "downloading"]

\* A round that also starts the download of the record after this one.
beginItem_prefetch(variant, images, L, failure, slideSize) ==
    IF L.i >= Len(images) THEN finish(variant, L, failure)
    ELSE IF sinkThrows(L, failure)
    THEN outerCatch(variant, sinkCalled(L), failure.value)
    ELSE LET image == images[L.i + 1]
             L1 == [sinkCalled(L) EXCEPT
                       !.progress = Append(@, progressEvent(L, percent(L.i, Len(images))))]
             L2 == IF variant = "importToSlides"
                   THEN [L1 EXCEPT
                            !.slide = Len(L1.created) + 1,
                            !.created = Append(@, SlideNode(Len(L1.created) + 1,
                                                   image.name, slideSize.width,
                                                   slideSize.height, <<>>))]
                   ELSE L1
             L3 == IF hasNoDownloadUrl(image) THEN L2
                   ELSE [L2 EXCEPT !.downloads = Append(@, image.downloadUrl)]
             L4 == IF L.i + 2 > Len(images) \/ hasNoDownloadUrl(images[L.i + 2])
                   THEN L3
                   ELSE [L3 EXCEPT !.downloads = Append(@, images[L.i + 2].downloadUrl)]
         IN  [L4 EXCEPT !.pc = "downloading"]

\* The head of one round of the loop, up to the await of downloadFile
\* (importToSlides creates the slide first), or the code after the loop.
beginItem(variant, images, L, failure, slideSize) ==
    IF L.i >= Len(images) THEN finish(variant, L, failure)
    ELSE IF sinkThrows(L, failure)
    THEN outerCatch(variant, sinkCalled(L), failure.value)
    ELSE LET image == images[L.i + 1]
             L1 == [sinkCalled(L) EXCEPT
                       !.progress = Append(@, progressEvent(L, percent(L.i, Len(images))))]
             L2 == IF variant = "importToSlides"
                   THEN [L1 EXCEPT
                            !.slide = Len(L1.created) + 1,
                            !.created = Append(@, SlideNode(Len(L1.created) + 1,
                                                   image.name, slideSize.width,
                                                   slideSize.height, <<>>))]
                   ELSE L1
             L3 == IF hasNoDownloadUrl(image) THEN L2
                   ELSE [L2 EXCEPT !.downloads = Append(@, image.downloadUrl)]
         IN  [L3 EXCEPT !.pc = "downloading"]

\* A placement that tracks the rectangle as well as its component.
placeInFigma_trackBoth(settings, image, L, bytes) ==
    IF bytes # "image" THEN itemCatch(L, CreateImageError)
    ELSE LET rectId == Len(L.created) + 1
             rect == RectangleNode(rectId, image.name, L.currentX, L.currentY,
                                   settings.imageSize, settings.imageSize)
             component == ComponentNode(rectId + 1, image.name, L.currentX,
                                        L.currentY, <<rectId>>)
             movedX == L.currentX + settings.imageSize + settings.spacing
             wraps == (L.i + 1) % settings.imagesPerRow = 0
         IN  [L EXCEPT
                 !.created = IF settings.createComponents
                             THEN @ \o <<rect, component>> ELSE Append(@, rect),
                 !.page = IF settings.createComponents
                          THEN @ \o <<rectId, rectId + 1>> ELSE Append(@, rectId),
                 !.nodes = IF settings.createComponents
                           THEN @ \o <<rectId, rectId + 1>> ELSE Append(@, rectId),
                 !.currentX = IF wraps THEN 0 ELSE movedX,
                 !.currentY = IF wraps
                              THEN @ + settings.imageSize + settings.spacing
                              ELSE @,
                 !.itemThrown = Append(@, <<>>)]

\* importToFigma, lines 722-763.
placeInFigma(settings, image, L, bytes) ==
    IF bytes # "image" THEN itemCatch(L, CreateImageError)
    ELSE LET rectId == Len(L.created) + 1
             rect == RectangleNode(rectId, image.name, L.currentX, L.currentY,
                                   settings.imageSize, settings.imageSize)
             component == ComponentNode(rectId + 1, image.name, L.currentX,
                                        L.currentY, <<rectId>>)
             tracked == IF settings.createComponents THEN rectId + 1 ELSE rectId
             movedX == L.currentX + settings.imageSize + settings.spacing
             wraps == (L.i + 1) % settings.imagesPerRow = 0
         IN  [L EXCEPT
                 !.created = IF settings.createComponents
                             THEN @ \o <<rect, component>> ELSE Append(@, rect),
                 !.page = Append(@, tracked),
                 !.nodes = Append(@, tracked),
                 !.currentX = IF wraps THEN 0 ELSE movedX,
                 !.currentY = IF wraps
                              THEN @ + settings.imageSize + settings.spacing
                              ELSE @,
                 !.itemThrown = Append(@, <<>>)]

\* importToFigJam pushing the rectangle before the sticky note.
placeInFigJam_rectFirst(image, L, bytes) ==
    LET stickyId == Len(L.created) + 1
        sticky == StickyNode(stickyId, image.name, L.currentX, L.currentY)
        rect == RectangleNode(stickyId + 1, image.name \o <<" (Image)">>,
                              L.currentX, L.currentY - 170, 150, 150)
        movedX == L.currentX + 200
    IN  IF bytes # "image"
        THEN itemCatch([L EXCEPT !.created = Append(@, sticky)], CreateImageError)
        ELSE [L EXCEPT
                 !.created = @ \o <<sticky, rect>>,
                 !.page = @ \o <<stickyId, stickyId + 1>>,
                 !.nodes = @ \o <<stickyId + 1, stickyId>>,
                 !.currentX = IF movedX > 1000 THEN 0 ELSE movedX,
                 !.currentY = IF movedX > 1000 THEN @ + 250 ELSE @,
                 !.itemThrown = Append(@, <<>>)]

\* importToFigJam wrapping a row once the cursor has passed 1200.
placeInFigJam_wideRow(image, L, bytes) ==
    LET stickyId == Len(L.created) + 1
        sticky == StickyNode(stickyId, image.name, L.currentX, L.currentY)
        rect == RectangleNode(stickyId + 1, image.name \o <<" (Image)">>,
                              L.currentX, L.currentY - 170, 150, 150)
        movedX == L.currentX + 200
    IN  IF bytes # "image"
        THEN itemCatch([L EXCEPT !.created = Append(@, sticky)], CreateImageError)
        ELSE [L EXCEPT
                 !.created = @ \o <<sticky, rect>>,
                 !.page = @ \o <<stickyId, stickyId + 1>>,
                 !.nodes = @ \o <<stickyId, stickyId + 1>>,
                 !.currentX = IF movedX > 1200 THEN 0 ELSE movedX,
                 !.currentY = IF movedX > 1200 THEN @ + 250 ELSE @,
                 !.itemThrown = Append(@, <<>>)]

\* importToFigJam, lines 824-856.
placeInFigJam(image, L, bytes) ==
    LET stickyId == Len(L.created) + 1
        sticky == StickyNode(stickyId, image.name, L.currentX, L.currentY)
        rect == RectangleNode(stickyId + 1, image.name \o <<" (Image)">>,
                              L.currentX, L.currentY - 170, 150, 150)
        movedX == L.currentX + 200
    IN  IF bytes # "image"
        THEN itemCatch([L EXCEPT !.created = Append(@, sticky)], CreateImageError)
        ELSE [L EXCEPT
                 !.created = @ \o <<sticky, rect>>,
                 !.page = @ \o <<stickyId, stickyId + 1>>,
                 !.nodes = @ \o <<stickyId, stickyId + 1>>,
                 !.currentX = IF movedX > 1000 THEN 0 ELSE movedX,
                 !.currentY = IF movedX > 1000 THEN @ + 250 ELSE @,
                 !.itemThrown = Append(@, <<>>)]

\* importToSlides taking the size the slide reports as it is.
placeInSlides_reportedSize(image, L, bytes) ==
    IF bytes # "image" THEN itemCatch(L, CreateImageError)
    ELSE LET slide == L.created[L.slide]
             rectId == Len(L.created) + 1
             imageWidth == Min(800, (slide.width * 8) \div 10)
             imageHeight == Min(600, (slide.height * 8) \div 10)
             rect == RectangleNode(rectId, image.name,
                                   (slide.width - imageWidth) \div 2,
                                   (slide.height - imageHeight) \div 2,
                                   imageWidth, imageHeight)
         IN  [L EXCEPT
                 !.created = Append([@ EXCEPT ![L.slide].children = Append(@, rectId)],
                                    rect),
                 !.nodes = Append(@, L.slide),
                 !.itemThrown = Append(@, <<>>)]

\* importToSlides, lines 916-941.  The sizes a slide reports are multiples of
\* ten, for which 0.8 * size and the halved margins are whole numbers.
placeInSlides(image, L, bytes) ==
    IF bytes # "image" THEN itemCatch(L, CreateImageError)
    ELSE LET slide == L.created[L.slide]
             rectId == Len(L.created) + 1
             slideWidth == IF slide.width = 0 THEN 1920 ELSE slide.width
             slideHeight == IF slide.height = 0 THEN 1080 ELSE slide.height
             imageWidth == Min(800, (slideWidth * 8) \div 10)
             imageHeight == Min(600, (slideHeight * 8) \div 10)
             rect == RectangleNode(rectId, image.name,
                                   (slideWidth - imageWidth) \div 2,
                                   (slideHeight - imageHeight) \div 2,
                                   imageWidth, imageHeight)
         IN  [L EXCEPT
                 !.created = Append([@ EXCEPT ![L.slide].children = Append(@, rectId)],
                                    rect),
                 !.nodes = Append(@, L.slide),
                 !.itemThrown = Append(@, <<>>)]

place(variant, settings, image, L, bytes) ==
    CASE variant = "importToFigma" -> placeInFigma(settings, image, L, bytes)
      [] variant = "importToFigJam" -> placeInFigJam(image, L, bytes)
      [] variant = "importToSlides" -> placeInSlides(image, L, bytes)

\* The body of the per-record try block from the answer to the download on.
afterDownload(variant, settings, image, L, answer) ==
    LET download == downloadFile(image, answer)
    IN  IF download.threw THEN itemCatch(L, download.error)
        ELSE place(variant, settings, image, L, download.value)

(***************************************************************************)
(* Inputs of the URL harness: URLs of the four documented shapes, built    *)
(* as base + marker + ID + tail, and URLs that hold no identifier.         *)
(***************************************************************************)
UrlBases ==
    { <<>>,
      <<"h", "t", "t", "p", "s", ":", "/", "/", "d", "r", "i", "v", "e", ".",
        "g", "o", "o", "g", "l", "e", ".", "c", "o", "m">>,
      <<"h", "t", "t", "p", ":", "/", "/", "x", ".", "c", "o", "/", "d">> }

UrlMarkers ==
    { [shape |-> "/folders/ID",
       text |-> <<"/", "f", "o", "l", "d", "e", "r", "s", "/">>],
      [shape |-> "?id=ID", text |-> <<"?", "i", "d", "=">>],
      [shape |-> "&id=ID", text |-> <<"?", "a", "=", "b", "&", "i", "d", "=">>],
      [shape |-> "/drive/folders/ID",
       text |-> <<"/", "d", "r", "i", "v", "e", "/", "f", "o", "l", "d", "e", "r", "s", "/">>],
      [shape |-> "/open?id=ID",
       text |-> <<"/", "o", "p", "e", "n", "?", "i", "d", "=">>] }

UrlTails ==
    { <<>>,
      <<"?", "u", "s", "p", "=", "s", "h", "a", "r", "i", "n", "g">>,
      <<"/", "v", "i", "e", "w">>,
      <<"&", "h", "l", "=", "e", "n">> }

IdAlphabet == {"a", "Z", "7", "-", "_"}

FolderIds == SeqsUpTo(IdAlphabet, MaxIdLen) \ {<<>>}

ShapedUrls ==
    { [url |-> b \o m.text \o id \o t, shape |-> m.shape, id |-> id] :
        b \in UrlBases, m \in UrlMarkers, id \in FolderIds, t \in UrlTails }

UnparsableUrls ==
    { <<>>,
      <<"n", "o", "t", " ", "a", " ", "u", "r", "l">>,
      \* /folders/ with no identifier after it
      <<"h", "t", "t", "p", "s", ":", "/", "/", "d", "r", "i", "v", "e", ".",
        "g", "o", "o", "g", "l", "e", ".", "c", "o", "m", "/", "f", "o", "l",
        "d", "e", "r", "s", "/">>,
      \* /folder/ (singular)
      <<"h", "t", "t", "p", "s", ":", "/", "/", "d", "r", "i", "v", "e", ".",
        "g", "o", "o", "g", "l", "e", ".", "c", "o", "m", "/", "f", "o", "l",
        "d", "e", "r", "/", "1", "A", "B", "C">>,
      \* ?ID= in upper case
      <<"h", "t", "t", "p", "s", ":", "/", "/", "x", ".", "c", "o", "/", "o",
        "p", "e", "n", "?", "I", "D", "=", "1", "A", "B", "C">>,
      \* both markers, neither followed by an identifier character
      <<"x", ".", "c", "o", "/", "d", "r", "i", "v", "e", "/", "f", "o", "l",
        "d", "e", "r", "s", "/", "?", "i", "d", "=">>,
      \* folders/ without the leading slash
      <<"f", "o", "l", "d", "e", "r", "s", "/", "1", "A", "B", "C">>,
      \* ?uid= is not ?id=
      <<"x", ".", "c", "o", "/", "f", "i", "l", "e", "/", "d", "/", "1", "A",
        "B", "C", "/", "v", "i", "e", "w", "?", "u", "i", "d", "=", "7">> }

\* URLs that hold two markers, each followed by its own identifier: parts[1]
\* stands before parts[2] in the text.
MixedUrls ==
    { u \in
        { [url |-> <<"x", ".", "c", "o">> \o m1.text \o <<c1>> \o m2.text \o <<c2>>,
           shape |-> "mixed",
           id |-> null,
           parts |-> << [shape |-> m1.shape, id |-> <<c1>>],
                        [shape |-> m2.shape, id |-> <<c2>>] >>] :
            m1 \in UrlMarkers, m2 \in UrlMarkers,
            c1 \in IdAlphabet, c2 \in IdAlphabet } :
        u.parts[1].id # u.parts[2].id }

UrlInputs ==
    ShapedUrls
    \cup {[url |-> u, shape |-> "none", id |-> null] : u \in UnparsableUrls}
    \cup MixedUrls

(***************************************************************************)
(* Pure-function harness for extractFolderId.                              *)
(***************************************************************************)
harnessVars == <<callee, callArgs, returned>>

scanVars ==
    <<scanImpl, scanArgs, scanPc, folderId, folderInfo, progressEvents,
      requests, raised, caught, listingResponse, folderInfoResponse,
      scanOutcome, isInitialized>>

importVars ==
    <<importCall, importPc, importIndex, nodes, currentX, currentY,
      currentSlide, created, page, selection, viewport, importProgress,
      downloads, itemThrown, outerThrown, importOutcome, answers, secondCall>>

pluginVars == <<editorType, received, handlerPc, posted, ui>>

vars == <<harnessVars, scanVars, importVars, pluginVars>>

ScanIdle ==
    /\ scanImpl = "code.ts"
    /\ scanArgs = [folderUrl |-> <<>>, allowedTypes |-> <<>>, maxImages |-> 0]
    /\ scanPc = "idle"
    /\ folderId = null
    /\ folderInfo = <<>>
    /\ progressEvents = <<>>
    /\ requests = <<>>
    /\ raised = <<>>
    /\ caught = <<>>
    /\ listingResponse = <<>>
    /\ folderInfoResponse = <<>>
    /\ scanOutcome = <<>>
    /\ isInitialized = FALSE

\* importToFigJam and importToSlides take no options.
NoOptions == [createComponents |-> FALSE]

\* The locals of an import call that has not run: each call has its own
\* nodes, currentX and currentY (and slide of the round).
freshLocals(call, pc) ==
    [call |-> call, pc |-> pc, i |-> 0, nodes |-> <<>>, currentX |-> 0,
     currentY |-> 0, slide |-> 0, progress |-> <<>>, downloads |-> <<>>,
     itemThrown |-> <<>>, outerThrown |-> <<>>, outcome |-> <<>>,
     answers |-> <<>>]

NoSecondCall ==
    freshLocals([variant |-> "importToFigma", images |-> <<>>,
                 options |-> NoOptions], "idle")

ImportFresh ==
    /\ secondCall = NoSecondCall
    /\ importIndex = 0
    /\ nodes = <<>>
    /\ currentX = 0
    /\ currentY = 0
    /\ currentSlide = 0
    /\ created = <<>>
    /\ page = <<>>
    /\ selection = <<>>
    /\ viewport = "initial"
    /\ importProgress = <<>>
    /\ downloads = <<>>
    /\ itemThrown = <<>>
    /\ outerThrown = <<>>
    /\ importOutcome = <<>>
    /\ answers = <<>>

ImportIdle ==
    /\ importCall = [variant |-> "importToFigma", images |-> <<>>,
                     options |-> NoOptions]
    /\ importPc = "idle"
    /\ ImportFresh

HarnessIdle ==
    /\ callee = "none"
    /\ callArgs = <<>>
    /\ returned = <<>>

\* No message handler runs: scanFolder or the import was called directly.
\* ui.html once DOMContentLoaded has run: both buttons enabled, the results
\* hidden, nothing sent and nothing received.
UiLoaded ==
    [scanDisabled |-> FALSE, importDisabled |-> FALSE, resultsShown |-> FALSE,
     clicks |-> 0, handling |-> <<>>, inbox |-> <<>>, importsEnded |-> 0]

PluginIdle ==
    /\ ui = UiLoaded
    /\ editorType = "figma"
    /\ received = [type |-> "none"]
    /\ handlerPc = "idle"
    /\ posted = <<>>

\* createProgressCallback and createImportProgressCallback: every progress
\* event of a call made by the message handler is posted to the UI.
relay(type, before, after) ==
    /\ posted' =
          IF handlerPc = "awaiting"
          THEN posted \o [k \in 1..(Len(after) - Len(before)) |->
                             [type |-> type, event |-> Len(before) + k]]
          ELSE posted
    /\ UNCHANGED <<editorType, received, handlerPc, ui>>

InitUrl ==
    /\ callee = "none"
    /\ callArgs \in UrlInputs
    /\ returned = <<>>
    /\ ScanIdle
    /\ ImportIdle
    /\ PluginIdle

CallExtractFolderId ==
    /\ callee = "none"
    /\ callee' = "extractFolderId"
    /\ returned' = Append(returned, extractFolderId(callArgs.url))
    /\ UNCHANGED <<callArgs, scanVars, importVars, pluginVars>>

CallDriveServiceExtractFolderId ==
    /\ callee = "none"
    /\ callee' = "DriveService.extractFolderId"
    /\ returned' = Append(returned, DriveService_extractFolderId(callArgs.url))
    /\ UNCHANGED <<callArgs, scanVars, importVars, pluginVars>>

NextUrl == CallExtractFolderId \/ CallDriveServiceExtractFolderId

SpecUrl == InitUrl /\ [][NextUrl]_vars

(***************************************************************************)
(* Pure-function harness for filterImageFiles: one application, then a     *)
(* second one to the result of the first.                                  *)
(***************************************************************************)
InitFilter ==
    /\ callee = "none"
    /\ callArgs \in [files : FileLists, allowedTypes : TagLists]
    /\ returned = <<>>
    /\ ScanIdle
    /\ ImportIdle
    /\ PluginIdle

CallFilterImageFiles ==
    /\ callee = "none"
    /\ callee' = "filterImageFiles"
    /\ returned' = <<filterImageFiles(callArgs.files, callArgs.allowedTypes)>>
    /\ UNCHANGED <<callArgs, scanVars, importVars, pluginVars>>

CallFilterImageFilesAgain ==
    /\ callee = "filterImageFiles"
    /\ Len(returned) = 1
    /\ returned' = Append(returned,
                          filterImageFiles(returned[1], callArgs.allowedTypes))
    /\ UNCHANGED <<callee, callArgs, scanVars, importVars, pluginVars>>

CallDriveServiceFilterImageFiles ==
    /\ callee = "none"
    /\ callee' = "DriveService.filterImageFiles"
    /\ returned' =
           <<DriveService_filterImageFiles(callArgs.files, callArgs.allowedTypes)>>
    /\ UNCHANGED <<callArgs, scanVars, importVars, pluginVars>>

NextFilter ==
    \/ CallFilterImageFiles
    \/ CallFilterImageFilesAgain
    \/ CallDriveServiceFilterImageFiles

SpecFilter == InitFilter /\ [][NextFilter]_vars

(***************************************************************************)
(* One call of scanFolder, step by step: each action is the code that      *)
(* runs between two awaits.                                                *)
(***************************************************************************)
\* !folderId
hasNoFolderId_never(id) == FALSE

hasNoFolderId(id) == id = null \/ id = <<>>

extractFolderIdOf(impl, url) ==
    IF impl = "code.ts" THEN extractFolderId(url) ELSE DriveService_extractFolderId(url)

\* try { ... } catch (error) { return { success: false, ... } } never lets a
\* failure out of the function.
settle_noCatch(thrown, result) ==
    IF thrown # <<>> THEN Throw(thrown[1]) ELSE Return(result[1])

settle(thrown, result) ==
    IF thrown # <<>> THEN Return(scanFailure(thrown[1])) ELSE Return(result[1])

\* Lines 626-648: progress 0, extractFolderId, the early return, progress
\* 10, the folder-info request.
ScanStart ==
    /\ scanPc = "called"
    /\ LET id == extractFolderIdOf(scanImpl, scanArgs.folderUrl)
       IN  /\ folderId' = id
           /\ IF hasNoFolderId(id)
              THEN /\ progressEvents' = progressEvents \o emitted(<<0>>, requests)
                   /\ scanOutcome' = <<invalidUrlResult>>
                   /\ scanPc' = "returned"
                   /\ UNCHANGED requests
              ELSE /\ progressEvents' = progressEvents \o emitted(<<0, 10>>, requests)
                   /\ requests' = Append(requests, folderInfoRequest(id))
                   /\ scanPc' = "awaitFolderInfo"
                   /\ UNCHANGED scanOutcome
    /\ UNCHANGED <<scanImpl, scanArgs, folderInfo, raised, caught,
                   listingResponse, folderInfoResponse, isInitialized,
                   harnessVars, importVars>>
    /\ relay("scan-progress", progressEvents, progressEvents')

\* Lines 587-611 and 648-655: getFolderInfo settles, progress 20, the
\* listing request (GoogleDriveService initializes itself first).
FolderInfoAnswered ==
    /\ scanPc = "awaitFolderInfo"
    /\ \E response \in FolderInfoResponses :
        /\ folderInfoResponse' = <<response>>
        /\ folderInfo' = getFolderInfo(response)
        /\ raised' = raised \o folderInfoFailures(response)
    /\ progressEvents' = progressEvents \o emitted(<<20>>, requests)
    /\ requests' = Append(requests, listingRequest(folderId, undefined))
    /\ isInitialized' = (isInitialized \/ scanImpl = "PluginService")
    /\ scanPc' = "awaitListing"
    /\ UNCHANGED <<scanImpl, scanArgs, folderId, caught, listingResponse,
                   scanOutcome, harnessVars, importVars>>
    /\ relay("scan-progress", progressEvents, progressEvents')

\* A scan that asks for the next page while the answer carries a
\* nextPageToken.
ListingAnswered_nextPage ==
    \/ /\ scanPc = "awaitListing"
       /\ Len(requests) < 4
       /\ requests' = Append(requests, listingRequest(folderId, <<"page-2">>))
       /\ UNCHANGED <<scanImpl, scanArgs, scanPc, folderId, folderInfo,
                      progressEvents, raised, caught, listingResponse,
                      folderInfoResponse, scanOutcome, isInitialized,
                      harnessVars, importVars, pluginVars>>
    \/ /\ scanPc = "awaitListing"
       /\ \E response \in ListingResponses :
           LET rest == afterListing(scanImpl, scanArgs, folderInfo, response)
               settled == settle(rest.thrown, rest.result)
           IN  /\ listingResponse' = <<response>>
               /\ progressEvents' = progressEvents \o emitted(rest.progress, requests)
               /\ raised' = raised \o (IF rest.thrown = <<>> THEN <<>>
                                        ELSE <<Raised(rest.stage, rest.thrown[1])>>)
               /\ caught' = rest.thrown
               /\ scanOutcome' = IF settled.threw THEN <<>> ELSE <<settled.value>>
               /\ scanPc' = IF settled.threw THEN "rejected" ELSE "returned"
       /\ UNCHANGED <<scanImpl, scanArgs, folderId, folderInfo, requests,
                      folderInfoResponse, isInitialized, harnessVars, importVars>>
       /\ relay("scan-progress", progressEvents, progressEvents')

\* Lines 517-556 and 655-690: the listing request is answered; filtering,
\* truncation, the result, or the catch block.
ListingAnswered ==
    /\ scanPc = "awaitListing"
    /\ \E response \in ListingResponses :
        LET rest == afterListing(scanImpl, scanArgs, folderInfo, response)
            settled == settle(rest.thrown, rest.result)
        IN  /\ listingResponse' = <<response>>
            /\ progressEvents' = progressEvents \o emitted(rest.progress, requests)
            /\ raised' = raised \o (IF rest.thrown = <<>> THEN <<>>
                                     ELSE <<Raised(rest.stage, rest.thrown[1])>>)
            /\ caught' = rest.thrown
            /\ scanOutcome' = IF settled.threw THEN <<>> ELSE <<settled.value>>
            /\ scanPc' = IF settled.threw THEN "rejected" ELSE "returned"
    /\ UNCHANGED <<scanImpl, scanArgs, folderId, folderInfo, requests,
                   folderInfoResponse, isInitialized, harnessVars, importVars>>
    /\ relay("scan-progress", progressEvents, progressEvents')

\* https://drive.example.com/drive/folders/1ABC
ScenarioUrl ==
    <<"h", "t", "t", "p", "s", ":", "/", "/", "d", "r", "i", "v", "e", ".",
      "e", "x", "a", "m", "p", "l", "e", ".", "c", "o", "m", "/", "d", "r",
      "i", "v", "e", "/", "f", "o", "l", "d", "e", "r", "s", "/", "1", "A",
      "B", "C">>

NotAUrl == <<"n", "o", "t", " ", "a", " ", "u", "r", "l">>

ScanUrls == {ScenarioUrl, NotAUrl}

ScanTagLists == {<<>>, <<TagPng, TagJpg>>, <<TagSvg>>}

\* What parseInt of the number input can give: the default, small values,
\* zero and negative ones.
MaxImagesValues ==
    ((0 - MaxNegativeArg)..MaxImagesArg) \cup {DefaultMaxImagesInput}

InitScan ==
    /\ HarnessIdle
    /\ ImportIdle
    /\ PluginIdle
    /\ scanImpl \in {"code.ts", "PluginService"}
    /\ scanArgs \in [folderUrl : ScanUrls, allowedTypes : ScanTagLists,
                     maxImages : MaxImagesValues]
    /\ scanPc = "called"
    /\ folderId = null
    /\ folderInfo = <<>>
    /\ progressEvents = <<>>
    /\ requests = <<>>
    /\ raised = <<>>
    /\ caught = <<>>
    /\ listingResponse = <<>>
    /\ folderInfoResponse = <<>>
    /\ scanOutcome = <<>>
    /\ isInitialized = FALSE

NextScan == ScanStart \/ FolderInfoAnswered \/ ListingAnswered

SpecScan == InitScan /\ [][NextScan]_vars

(***************************************************************************)
(* One call of an import function, step by step: each action is the code   *)
(* that runs between two awaits of downloadFile.                           *)
(***************************************************************************)
ImgA ==
    [id |-> "a", name |-> <<"a.png">>,
     downloadUrl |-> <<"https://drive.google.com/uc?export=download&id=", "a">>]

ImgB ==
    [id |-> "b", name |-> <<"b.jpg">>,
     downloadUrl |-> <<"https://drive.google.com/uc?export=download&id=", "b">>]

ImgC ==
    [id |-> "c", name |-> <<"c.png">>,
     downloadUrl |-> <<"https://drive.google.com/uc?export=download&id=", "c">>]

\* A record that did not come from a listing: it has no download reference.
ImgNoUrl == [id |-> "d", name |-> <<"d.png">>, downloadUrl |-> undefined]

ImagePool == {ImgA, ImgB, ImgC, ImgNoUrl}

\* The record scanGoogleDriveFolder builds for a listed file.
DriveFile(id, ext) ==
    [id |-> id, name |-> <<id \o "." \o ext>>,
     downloadUrl |-> <<"https://drive.google.com/uc?export=download&id=", id>>]

\* A list long enough to fill a row of the grid of importToFigma and to
\* start the next one.
GridImages == <<ImgA, ImgB, ImgC, DriveFile("e", "jpg")>>

\* A list long enough to fill a row of importToFigJam and to start the next
\* one.
StickyImages ==
    <<ImgA, ImgB, ImgC, DriveFile("e", "jpg"), DriveFile("f", "png"),
      DriveFile("g", "jpg"), DriveFile("h", "png"), DriveFile("i", "jpg")>>

ImageLists ==
    {s \in SeqsUpTo(ImagePool, MaxImport) :
        \A a, b \in 1..Len(s) : a # b => s[a] # s[b]}

\* The options of importToFigma.
FigmaOptions ==
    { [createComponents |-> FALSE],
      [createComponents |-> TRUE],
      [createComponents |-> FALSE, imagesPerRow |-> 2] }

ImportCalls ==
    {[variant |-> "importToFigma", images |-> s, options |-> o] :
        s \in ImageLists, o \in FigmaOptions}
    \cup {[variant |-> v, images |-> s, options |-> NoOptions] :
            v \in {"importToFigJam", "importToSlides"}, s \in ImageLists}
    \cup {[variant |-> "importToFigma", images |-> GridImages, options |-> o] :
            o \in FigmaOptions}
    \cup {[variant |-> "importToFigJam", images |-> StickyImages,
           options |-> NoOptions]}

\* The size a new slide reports (0: none).
SlideSizes ==
    {[width |-> 1920, height |-> 1080], [width |-> 0, height |-> 0],
     [width |-> 500, height |-> 300], [width |-> 900, height |-> 1000]}

\* A sink throws an Error or some other value.
SinkThrowables == {SinkError, NonError}

SinkFailures ==
    {[at |-> 0, value |-> SinkError]}
    \cup {[at |-> k, value |-> v] : k \in 1..MaxSinkCalls, v \in SinkThrowables}

\* The locals of the call and the canvas, as one record.
importState ==
    [pc |-> importPc, i |-> importIndex, nodes |-> nodes,
     currentX |-> currentX, currentY |-> currentY, slide |-> currentSlide,
     created |-> created, page |-> page, selection |-> selection,
     viewport |-> viewport, progress |-> importProgress,
     downloads |-> downloads, itemThrown |-> itemThrown,
     outerThrown |-> outerThrown, outcome |-> importOutcome, calls |-> 0]

importBecomes(L) ==
    /\ importPc' = L.pc
    /\ importIndex' = L.i
    /\ nodes' = L.nodes
    /\ currentX' = L.currentX
    /\ currentY' = L.currentY
    /\ currentSlide' = L.slide
    /\ created' = L.created
    /\ page' = L.page
    /\ selection' = L.selection
    /\ viewport' = L.viewport
    /\ importProgress' = L.progress
    /\ downloads' = L.downloads
    /\ itemThrown' = L.itemThrown
    /\ outerThrown' = L.outerThrown
    /\ importOutcome' = L.outcome

\* The sizes figma.createSlide() can give the next slide: the slides of one
\* deck share their size.  Only importToSlides creates a slide; the other
\* variants never read the size.
slideSizesNow ==
    IF importCall.variant # "importToSlides" THEN {[width |-> 0, height |-> 0]}
    ELSE IF currentSlide = 0 THEN SlideSizes
    ELSE {[width |-> created[currentSlide].width,
           height |-> created[currentSlide].height]}

\* From the call to the first await: the 0% event and the head of the
\* first round (the whole function when the list is empty).
ImportStart ==
    /\ importPc = "called"
    /\ \E failure \in SinkFailures,
          slideSize \in slideSizesNow :
        LET L0 == importState
        IN  importBecomes(
                IF sinkThrows(L0, failure)
                THEN outerCatch(importCall.variant, sinkCalled(L0), failure.value)
                ELSE beginItem(importCall.variant, importCall.images,
                               [sinkCalled(L0) EXCEPT
                                   !.progress = Append(@, progressEvent(L0, whole(0)))],
                               failure, slideSize))
    /\ UNCHANGED <<importCall, answers, secondCall, harnessVars, scanVars>>
    /\ relay("import-progress", importProgress, importProgress')

\* downloadFile settles: the rest of the round, then the head of the next
\* round or the code after the loop.
DownloadAnswered ==
    /\ importPc = "downloading"
    /\ \E answer \in DownloadAnswers, failure \in SinkFailures,
          slideSize \in slideSizesNow :
        LET image == importCall.images[importIndex + 1]
            settings == spread(DEFAULT_IMPORT_SETTINGS, importCall.options)
            L1 == afterDownload(importCall.variant, settings, image,
                                importState, answer)
            failed == L1.itemThrown[Len(L1.itemThrown)] # <<>>
            L2 == [L1 EXCEPT !.i = nextIndex(@, Len(importCall.images), failed)]
        IN  /\ importBecomes(beginItem(importCall.variant, importCall.images,
                                       L2, failure, slideSize))
            /\ answers' = Append(answers, IF hasNoDownloadUrl(image)
                                          THEN NoRequest ELSE answer)
    /\ UNCHANGED <<importCall, secondCall, harnessVars, scanVars>>
    /\ relay("import-progress", importProgress, importProgress')

InitImport ==
    /\ HarnessIdle
    /\ ScanIdle
    /\ PluginIdle
    /\ importCall \in ImportCalls
    /\ importPc = "called"
    /\ ImportFresh

NextImport == ImportStart \/ DownloadAnswered

SpecImport == InitImport /\ [][NextImport]_vars

(***************************************************************************)
(* figma.ui.onmessage, one run of the handler: the UI has sent a           *)
(* scan-drive or an import-images message; the handler awaits scanFolder   *)
(* or the import function of the editor and posts the outcome.             *)
(***************************************************************************)
ScanMessages ==
    {[type |-> "scan-drive",
      data |-> [url |-> u, imageTypes |-> <<TagPng, TagJpg>>, maxImages |-> m]] :
        u \in ScanUrls, m \in {1, DefaultMaxImagesInput}}

\* The UI sends the records the user ticked, at least one, and the state of
\* the createComponents box.
ImportMessages ==
    {[type |-> "import-images", data |-> [images |-> s, createComponents |-> c]] :
        s \in {<<ImgA>>, <<ImgB, ImgA>>}, c \in BOOLEAN}

PluginMessages == ScanMessages \cup ImportMessages

\* x || fallback, for a message text.
orElse(x, fallback) == IF x \in {undefined, null, <<>>, <<"">>} THEN fallback ELSE x

\* msg.data.<key> || DEFAULT_IMPORT_SETTINGS.<key>
settingOr(data, key) ==
    IF key \in DOMAIN data /\ data[key] # 0 THEN data[key]
    ELSE DEFAULT_IMPORT_SETTINGS[key]

\* Lines 261-268.
importOptions(data) ==
    [createComponents |-> data.createComponents,
     imageSize |-> settingOr(data, "imageSize"),
     spacing |-> settingOr(data, "spacing"),
     imagesPerRow |-> settingOr(data, "imagesPerRow"),
     preserveAspectRatio |-> DEFAULT_IMPORT_SETTINGS.preserveAspectRatio]

\* The import call the handler of the editor makes for an import-images
\* message.
importCallOf(editor, data) ==
    CASE editor = "figma" ->
            [variant |-> "importToFigma", images |-> data.images,
             options |-> importOptions(data)]
      [] editor = "figjam" ->
            [variant |-> "importToFigJam", images |-> data.images,
             options |-> NoOptions]
      [] editor = "slides" ->
            [variant |-> "importToSlides", images |-> data.images,
             options |-> NoOptions]

\* The call the handler makes for a message, as the values of the call's
\* variables; the other function stays idle.
callFor(editor, msg) ==
    IF msg.type = "scan-drive"
    THEN [scanArgs |-> [folderUrl |-> msg.data.url,
                        allowedTypes |-> msg.data.imageTypes,
                        maxImages |-> msg.data.maxImages],
          scanPc |-> "called",
          importCall |-> [variant |-> "importToFigma", images |-> <<>>,
                          options |-> NoOptions],
          importPc |-> "idle"]
    ELSE [scanArgs |-> [folderUrl |-> <<>>, allowedTypes |-> <<>>, maxImages |-> 0],
          scanPc |-> "idle",
          importCall |-> importCallOf(editor, msg.data),
          importPc |-> "called"]

\* What await scanFolder(...) or await importTo...(...) gives the handler.
awaited ==
    IF received.type = "scan-drive"
    THEN IF scanPc = "rejected" THEN Throw(caught[1]) ELSE Return(scanOutcome[1])
    ELSE IF importPc = "rejected" THEN Throw(outerThrown[1])
         ELSE Return(importOutcome[1])

scanTerminal(result) ==
    IF result.success
    THEN [type |-> "scan-complete", images |-> result.images,
          totalFound |-> result.totalFound, folderName |-> result.folderName]
    ELSE [type |-> "error", message |-> orElse(result.error, <<"Failed to scan folder">>)]

\* A handler that reports an import that placed nothing as an error.
importTerminal_errorOnZero(result) ==
    IF result.success /\ result.importedCount > 0
    THEN [type |-> "import-complete", count |-> result.importedCount]
    ELSE [type |-> "error",
          message |-> orElse(IF result.success THEN undefined ELSE result.error,
                             <<"Failed to import images">>)]

importTerminal(result) ==
    IF result.success
    THEN [type |-> "import-complete", count |-> result.importedCount]
    ELSE [type |-> "error",
          message |-> orElse(result.error, <<"Failed to import images">>)]

\* The message the handler's catch block posts.
errorMessage(error) ==
    [type |-> "error",
     message |-> IF error.isError THEN error.message
                 ELSE <<"An unknown error occurred">>]

\* A handler without try/catch: a throwing postMessage ends it.
terminalPosts_noCatch(kind, settled, failure) ==
    IF settled.threw THEN <<>>
    ELSE IF failure.at = 1 THEN <<>>
    ELSE <<IF kind = "scan-drive" THEN scanTerminal(settled.value)
           ELSE importTerminal(settled.value)>>

\* The messages the handler posts once its await has settled: the outcome,
\* or from the catch block the error that the await or the first
\* postMessage threw.  failure.at numbers the postMessage call that throws.
terminalPosts(kind, settled, failure) ==
    IF settled.threw
    THEN IF failure.at = 1 THEN <<>> ELSE <<errorMessage(settled.error)>>
    ELSE IF failure.at = 1 THEN <<errorMessage(failure.value)>>
    ELSE <<IF kind = "scan-drive" THEN scanTerminal(settled.value)
           ELSE importTerminal(settled.value)>>

\* The continuation of the handler after its await.
HandlerResumes ==
    /\ handlerPc = "awaiting"
    /\ IF received.type = "scan-drive" THEN scanPc \in {"returned", "rejected"}
       ELSE importPc \in {"returned", "rejected"}
    /\ \E failure \in {f \in SinkFailures : f.at <= 2} :
          LET posts == terminalPosts(received.type, awaited, failure)
          IN  /\ posted' = posted \o posts
              /\ handlerPc' = IF posts = <<>> THEN "rejected" ELSE "done"
    /\ UNCHANGED <<editorType, received, ui, harnessVars, scanVars, importVars>>

InitPlugin ==
    /\ HarnessIdle
    /\ ui = UiLoaded
    /\ editorType \in {"figma", "figjam", "slides"}
    /\ received \in PluginMessages
    /\ handlerPc = "awaiting"
    /\ posted = <<>>
    /\ scanImpl = "code.ts"
    /\ scanArgs = callFor(editorType, received).scanArgs
    /\ scanPc = callFor(editorType, received).scanPc
    /\ folderId = null
    /\ folderInfo = <<>>
    /\ progressEvents = <<>>
    /\ requests = <<>>
    /\ raised = <<>>
    /\ caught = <<>>
    /\ listingResponse = <<>>
    /\ folderInfoResponse = <<>>
    /\ scanOutcome = <<>>
    /\ isInitialized = FALSE
    /\ importCall = callFor(editorType, received).importCall
    /\ importPc = callFor(editorType, received).importPc
    /\ ImportFresh

NextPlugin ==
    \/ ScanStart
    \/ FolderInfoAnswered
    \/ ListingAnswered
    \/ ImportStart
    \/ DownloadAnswered
    \/ HandlerResumes

\* Code between two awaits runs to its end, and a fetch that was issued
\* settles: no step of the plugin stays enabled forever without being taken.
SpecPlugin == InitPlugin /\ [][NextPlugin]_vars /\ WF_vars(NextPlugin)

(***************************************************************************)
(* Claims.                                                                 *)
(***************************************************************************)

\* Some pattern of the list matches somewhere in url: one of the literal
\* prefixes occurs in it with an identifier character right after.
PatternLiterals ==
    { <<"/", "f", "o", "l", "d", "e", "r", "s", "/">>,
      <<"?", "i", "d", "=">>,
      <<"&", "i", "d", "=">>,
      <<"/", "d", "r", "i", "v", "e", "/", "f", "o", "l", "d", "e", "r", "s", "/">>,
      <<"/", "o", "p", "e", "n", "?", "i", "d", "=">> }

SomePatternMatches(url) ==
    \E lit \in PatternLiterals : \E p \in 1..Len(url) :
        /\ p + Len(lit) <= Len(url)
        /\ SubSeq(url, p, p + Len(lit) - 1) = lit
        /\ url[p + Len(lit)] \in IdChars

\* C10: for a URL of a supported shape (.../folders/ID, ...?id=ID, ...&id=ID,
\* .../drive/folders/ID, .../open?id=ID) whose ID is made of letters, digits,
\* '-' and '_', extractFolderId (of code.ts and of GoogleDriveService) returns
\* exactly ID; for a URL in which no pattern matches it returns null.
C10_ExtractReturnsId ==
    callee \in {"extractFolderId", "DriveService.extractFolderId"} =>
        /\ callArgs.shape \notin {"none", "mixed"} => returned[1] = callArgs.id
        /\ ~SomePatternMatches(callArgs.url) => returned[1] = null

C10_Witness ==
    /\ callee = "DriveService.extractFolderId"
    /\ callArgs.shape = "/open?id=ID"
    /\ callArgs.id = <<"Z", "_">>
    /\ returned = <<(<<"Z", "_">>)>>

\* The rank, in the fixed order of the list, of the first pattern that
\* matches a marker of the given shape: /drive/folders/ID holds /folders/ID
\* and /open?id=ID holds ?id=ID.
patternRank(shape) ==
    IF shape \in {"/folders/ID", "/drive/folders/ID"} THEN 1 ELSE 2

\* C11: extractFolderId tries its patterns in the fixed order (/folders/<id>,
\* [?&]id=<id>, /drive/folders/<id>, /open?id=<id>) and returns the capture of
\* the first pattern that matches, even when a later pattern would match a
\* different identifier, wherever the two stand in the URL: a URL containing
\* both /folders/A and ?id=B yields A.
C11_FirstPatternWins ==
    (callee \in {"extractFolderId", "DriveService.extractFolderId"}
        /\ callArgs.shape = "mixed") =>
        LET first == callArgs.parts[1]
            second == callArgs.parts[2]
        IN  returned[1] =
                IF patternRank(first.shape) <= patternRank(second.shape)
                THEN first.id ELSE second.id

\* ?id=Z stands before /folders/a in the text and /folders/a still wins.
C11_Witness ==
    /\ callee = "extractFolderId"
    /\ callArgs.shape = "mixed"
    /\ callArgs.parts = << [shape |-> "?id=ID", id |-> <<"Z">>],
                          [shape |-> "/folders/ID", id |-> <<"a">>] >>
    /\ returned = <<(<<"a">>)>>

\* The filter as the contract words it: a record passes when some tag of
\* the list has the record's lower-cased MIME type in its table, or the
\* record's lower-cased name ends with "." and the lower-cased tag.
PassesByMime(file, tag) ==
    /\ FILE_TYPE_MAPPINGS(toLowerCase(tag)) # undefined
    /\ \E k \in 1..Len(FILE_TYPE_MAPPINGS(toLowerCase(tag))) :
           FILE_TYPE_MAPPINGS(toLowerCase(tag))[k] = toLowerCase(file.mimeType)

PassesByExtension(file, tag) ==
    LET name == toLowerCase(file.name)
        ext == <<".">> \o toLowerCase(tag)
    IN  /\ Len(name) >= Len(ext)
        /\ \A k \in 1..Len(ext) : name[Len(name) - Len(ext) + k] = ext[k]

Passes(file, allowedTypes) ==
    \E t \in 1..Len(allowedTypes) :
        PassesByMime(file, allowedTypes[t]) \/ PassesByExtension(file, allowedTypes[t])

\* C8: filterImageFiles(records, tags) returns exactly the records, in input
\* order, for which some tag either has the record's lower-cased MIME type in
\* its FILE_TYPE_MAPPINGS set or has the record's lower-cased name ending with
\* '.' + the lower-cased tag; an empty tag list keeps no record.
C8_FilterKeepsExactlyMatching ==
    callee = "filterImageFiles" =>
        /\ returned[1] =
              SelectSeq(callArgs.files, LAMBDA f : Passes(f, callArgs.allowedTypes))
        /\ callArgs.allowedTypes = <<>> => returned[1] = <<>>

\* MIME alone and extension alone both suffice, a tag without table matches
\* by extension, and the order of the input is kept.
C8_Witness ==
    /\ callee = "filterImageFiles"
    /\ callArgs.files =
          toDriveFiles(<<RawJpgExtOnly, RawText, RawPngMimeOnly>>)
    /\ callArgs.allowedTypes = <<TagJpg, TagPng>>
    /\ returned[1] = toDriveFiles(<<RawJpgExtOnly, RawPngMimeOnly>>)

\* C9: filtering is idempotent: filterImageFiles(filterImageFiles(R, T), T)
\* equals filterImageFiles(R, T).
C9_FilterIdempotent ==
    (callee = "filterImageFiles" /\ Len(returned) = 2) => returned[2] = returned[1]

C9_Witness ==
    /\ callee = "filterImageFiles"
    /\ Len(returned) = 2
    /\ Len(callArgs.files) = 3
    /\ Len(returned[2]) = 2

(***************************************************************************)
(* Claims about scanFolder.                                                *)
(***************************************************************************)
scanEnded == scanPc \in {"returned", "rejected"}

\* The message the catch block reports for a thrown value.
messageOf(failure) ==
    IF failure.isError THEN failure.message ELSE <<"Unknown error occurred">>

\* C2, as claimed: scanFolder never rejects, and any failure raised while
\* fetching folder info, listing, filtering or truncating ends the call with
\* an outcome success=false whose error is the raised failure's message.
C2_AnyFailureFailsScan ==
    /\ scanPc # "rejected"
    /\ (scanPc = "returned" /\ raised # <<>>) =>
          \A k \in 1..Len(raised) :
              /\ scanOutcome[1].success = FALSE
              /\ scanOutcome[1].error = raised[k].failure.message

\* C2, amended: scanFolder never rejects, and any failure raised while
\* listing, filtering or truncating ends the call with an outcome
\* success=false whose error is the raised failure's message when the
\* failure is an Error and "Unknown error occurred" when it is not.
C2_ListingFailureFailsScan ==
    /\ scanPc # "rejected"
    /\ scanPc = "returned" =>
          \A k \in 1..Len(raised) :
              raised[k].stage # "folderInfo" =>
                  /\ scanOutcome[1].success = FALSE
                  /\ scanOutcome[1].error = messageOf(raised[k].failure)

\* A folder-info failure followed by a rejected listing request.
C2_Witness ==
    /\ scanPc = "returned"
    /\ Len(raised) = 2
    /\ raised[1].stage = "folderInfo"
    /\ raised[2] = Raised("listing", Error(<<"Failed to fetch">>))
    /\ scanOutcome[1].error = <<"Failed to fetch">>

\* C3: every outcome returned by scanFolder has exactly one of two shapes:
\* success=true with no error field, or success=false with an error message,
\* images=[] and totalFound=0; no outcome carries both a non-empty images
\* list and an error.
C3_OutcomeShape ==
    scanOutcome # <<>> =>
        LET outcome == scanOutcome[1]
        IN  /\ \/ /\ outcome.success = TRUE
                  /\ "error" \notin DOMAIN outcome
               \/ /\ outcome.success = FALSE
                  /\ "error" \in DOMAIN outcome
                  /\ outcome.error # undefined
                  /\ outcome.error # <<>>
                  /\ outcome.images = <<>>
                  /\ outcome.totalFound = 0
            /\ ~(outcome.images # <<>> /\ "error" \in DOMAIN outcome)

\* A failure outcome produced by the catch block after the filter threw.
C3_Witness ==
    /\ scanPc = "returned"
    /\ caught = <<TypeErrorToLowerCase>>
    /\ scanOutcome[1].success = FALSE
    /\ scanOutcome[1].images = <<>>

\* C4: when extractFolderId finds no identifier in the URL, scanFolder
\* returns success=false with error equal to the INVALID_URL message and
\* images=[], issues no folder-info or listing request, and the only
\* progress event emitted is the 0% one.
C4_InvalidUrlReturnsAtOnce ==
    (scanPc \notin {"idle", "called"}
        /\ extractFolderIdOf(scanImpl, scanArgs.folderUrl) = null) =>
        /\ scanPc = "returned"
        /\ scanOutcome[1].success = FALSE
        /\ scanOutcome[1].error = INVALID_URL
        /\ scanOutcome[1].images = <<>>
        /\ requests = <<>>
        /\ progressEvents = emitted(<<0>>, <<>>)

C4_Witness ==
    /\ scanArgs.folderUrl = NotAUrl
    /\ scanPc = "returned"
    /\ scanOutcome[1].error = INVALID_URL

\* C5, as claimed: when the listing request is answered with HTTP 401 or
\* 403, the scan outcome is success=false with error equal to the
\* FOLDER_NOT_FOUND message, for scanFolder of code.ts and for
\* PluginService.scanFolder alike.
C5_AccessDeniedIsFolderNotFound ==
    (scanEnded /\ listingResponse # <<>>
        /\ listingResponse[1].type = "response"
        /\ listingResponse[1].status \in {401, 403}) =>
        /\ scanPc = "returned"
        /\ scanOutcome[1].success = FALSE
        /\ scanOutcome[1].error = FOLDER_NOT_FOUND

\* C6, as claimed: for every listing and every integer maxImages, a
\* successful outcome satisfies images.length <= maxImages and
\* images.length = min(totalFound, maxImages).
C6_AtMostMaxImages ==
    (scanPc = "returned" /\ scanOutcome[1].success) =>
        /\ Len(scanOutcome[1].images) <= scanArgs.maxImages
        /\ Len(scanOutcome[1].images) =
              Min(scanOutcome[1].totalFound, scanArgs.maxImages)

\* The records the answer to the listing request holds ([] without one).
listedFiles ==
    IF /\ listingResponse # <<>>
       /\ listingResponse[1].type = "response"
       /\ ok(listingResponse[1])
       /\ listingResponse[1].body.hasFiles
    THEN toDriveFiles(listingResponse[1].body.files)
    ELSE <<>>

\* The filter as the contract words it, over the table of the variant.
PassesIn(impl, file, allowedTypes) ==
    \E t \in 1..Len(allowedTypes) :
        \/ LET table == validMimeTypesOf(impl, toLowerCase(allowedTypes[t]))
           IN  /\ table # undefined
               /\ \E k \in 1..Len(table) : table[k] = toLowerCase(file.mimeType)
        \/ PassesByExtension(file, allowedTypes[t])

\* C7: in a successful scan outcome, images is the prefix, in listing order,
\* of the records of the listing that pass the image filter, and totalFound
\* is the number of records passing the filter before truncation; 12
\* matching and 3 non-matching files with maxImages=10 give totalFound=12
\* and 10 images.
C7_PrefixOfFiltered ==
    (scanPc = "returned" /\ scanOutcome[1].success) =>
        LET passing ==
                SelectSeq(listedFiles,
                          LAMBDA f : PassesIn(scanImpl, f, scanArgs.allowedTypes))
            outcome == scanOutcome[1]
        IN  /\ outcome.totalFound = Len(passing)
            /\ Len(outcome.images) <= Len(passing)
            /\ outcome.images = SubSeq(passing, 1, Len(outcome.images))
            /\ (/\ listedFiles = toDriveFiles(ScenarioListing)
                /\ scanArgs.allowedTypes = <<TagPng, TagJpg>>
                /\ scanArgs.maxImages = DefaultMaxImagesInput) =>
                   /\ outcome.totalFound = 12
                   /\ Len(outcome.images) = 10

\* The scenario of the contract.
C7_Witness ==
    /\ scanPc = "returned"
    /\ scanArgs.folderUrl = ScenarioUrl
    /\ scanArgs.allowedTypes = <<TagPng, TagJpg>>
    /\ scanArgs.maxImages = DefaultMaxImagesInput
    /\ listedFiles = toDriveFiles(ScenarioListing)
    /\ scanOutcome[1].success
    /\ scanOutcome[1].totalFound = 12
    /\ Len(scanOutcome[1].images) = 10
    /\ scanOutcome[1].images[10] = toDriveFile(ScenarioListing[12])

(***************************************************************************)
(* Claims about the import functions.                                      *)
(***************************************************************************)
\* The download and the placement of the k-th record succeeded: a request
\* was issued, answered with a success status and bytes that are an image.
recordSucceeded(k) ==
    /\ k <= Len(answers)
    /\ ~hasNoDownloadUrl(importCall.images[k])
    /\ answers[k].type = "response"
    /\ ok(answers[k])
    /\ answers[k].body.bytes = "image"

\* The name a tracked node carries (a sticky note carries it as its text).
labelOf(nodeId) ==
    IF created[nodeId].type = "STICKY" THEN created[nodeId].characters
    ELSE created[nodeId].name

\* The names of the nodes an import tracks for one record.
labelsFor(variant, image) ==
    IF variant = "importToFigJam"
    THEN <<image.name, image.name \o <<" (Image)">>>>
    ELSE <<image.name>>

RECURSIVE expectedLabels(_, _, _)
expectedLabels(variant, images, k) ==
    IF k > Len(images) THEN <<>>
    ELSE (IF recordSucceeded(k) THEN labelsFor(variant, images[k]) ELSE <<>>)
         \o expectedLabels(variant, images, k + 1)

\* C1: for every import variant and every record list in which any subset
\* of the records fails to download or to be placed (nothing failing outside
\* the per-record steps), the call returns success=true, importedCount is
\* the number of records whose download and placement succeeded, every
\* record after a failed one is still attempted, and the returned nodes are
\* exactly those of the successful records in the records' original order.
C1_PartialFailureKeepsGoing ==
    (importPc = "returned" /\ outerThrown = <<>>) =>
        LET outcome == importOutcome[1]
            images == importCall.images
        IN  /\ outcome.success = TRUE
            /\ outcome.importedCount =
                  Cardinality({k \in 1..Len(images) : recordSucceeded(k)})
            /\ Len(answers) = Len(images)
            /\ downloads =
                  [k \in 1..Len(downloads) |->
                      SelectSeq(images, LAMBDA f : ~hasNoDownloadUrl(f))[k].downloadUrl]
            /\ Len(downloads) =
                  Len(SelectSeq(images, LAMBDA f : ~hasNoDownloadUrl(f)))
            /\ [k \in 1..Len(outcome.nodes) |-> labelOf(outcome.nodes[k])] =
                  expectedLabels(importCall.variant, images, 1)
            /\ \A a, b \in 1..Len(outcome.nodes) :
                  a # b => outcome.nodes[a] # outcome.nodes[b]

\* Three records, the download of the second fails: importedCount = 2 and
\* the nodes of the first and of the third.
C1_Witness ==
    /\ importPc = "returned"
    /\ importCall.images = <<ImgA, ImgB, ImgC>>
    /\ Len(answers) = 3
    /\ answers[1] = Response(200, "OK", [bytes |-> "image"])
    /\ answers[2] = Response(404, "Not Found", [bytes |-> "none"])
    /\ answers[3] = Response(200, "OK", [bytes |-> "image"])
    /\ importOutcome[1].success = TRUE
    /\ importOutcome[1].importedCount = 2
    /\ Len(importOutcome[1].nodes) = 2
    /\ labelOf(importOutcome[1].nodes[1]) = ImgA.name
    /\ labelOf(importOutcome[1].nodes[2]) = ImgC.name

\* The number of records the call placed on the canvas: rectangles or
\* components appended to the page, sticky notes appended to the page,
\* slides that were given their image rectangle.
placedCount ==
    CASE importCall.variant = "importToFigma" -> Len(page)
      [] importCall.variant = "importToFigJam" ->
            Cardinality({k \in 1..Len(page) : created[page[k]].type = "STICKY"})
      [] importCall.variant = "importToSlides" ->
            Cardinality({k \in 1..Len(created) :
                            /\ created[k].type = "SLIDE"
                            /\ created[k].children # <<>>})

\* C12, as claimed: for every import call of every variant, whatever its
\* outcome, the importedCount it reports equals the number of items that
\* call actually placed on the canvas.
C12_CountIsPlacedWhateverOutcome ==
    importPc = "returned" => importOutcome[1].importedCount = placedCount

\* C12, amended: for every import call of every variant that returns
\* success=true, the importedCount it reports equals the number of items
\* that call actually placed on the canvas.
C12_CountIsPlacedOnSuccess ==
    (importPc = "returned" /\ importOutcome[1].success) =>
        importOutcome[1].importedCount = placedCount

\* Three records requested, two placed, one failed.
C12_Witness ==
    /\ importPc = "returned"
    /\ importOutcome[1].success
    /\ Len(importCall.images) = 3
    /\ importCall.variant = "importToFigJam"
    /\ placedCount = 2
    /\ importOutcome[1].importedCount = 2

\* C13: for every import variant and every input, the returned importedCount
\* is a non-negative integer (the halving of importToFigJam is exact) not
\* greater than the number of records requested.
C13_CountWithinRequested ==
    importPc = "returned" =>
        /\ importOutcome[1].importedCount \in 0..Len(importCall.images)
        /\ importCall.variant = "importToFigJam" =>
              Len(importOutcome[1].nodes) = 2 * importOutcome[1].importedCount

\* Every record of the list placed: the count reaches the number requested.
C13_Witness ==
    /\ importPc = "returned"
    /\ importCall.variant = "importToFigJam"
    /\ Len(importCall.images) = 3
    /\ importOutcome[1].importedCount = 3

\* The message an import variant reports for a thrown value that has none.
fallbackOf(variant) ==
    CASE variant = "importToFigma" -> <<"Import failed">>
      [] variant = "importToFigJam" -> <<"FigJam import failed">>
      [] variant = "importToSlides" -> <<"Slides import failed">>

\* C14, as claimed: when the canvas sink or the progress sink throws outside
\* the per-item try of an import, the call does not reject: it returns
\* success=false, importedCount=0, nodes=[] and the thrown message as error.
C14_OuterFailureGivesThrownMessage ==
    outerThrown # <<>> =>
        /\ importPc = "returned"
        /\ importOutcome[1].success = FALSE
        /\ importOutcome[1].importedCount = 0
        /\ importOutcome[1].nodes = <<>>
        /\ importOutcome[1].error = outerThrown[1].message

\* C14, amended: when the canvas sink or the progress sink throws outside
\* the per-item try of an import, the call does not reject: it returns
\* success=false, importedCount=0, nodes=[] and, as error, the thrown message
\* when the thrown value is an Error and the fallback message of the variant
\* ("Import failed", "FigJam import failed", "Slides import failed") when it
\* is not.
C14_OuterFailureIsCaught ==
    /\ importPc # "rejected"
    /\ outerThrown # <<>> =>
          /\ importPc = "returned"
          /\ importOutcome[1].success = FALSE
          /\ importOutcome[1].importedCount = 0
          /\ importOutcome[1].nodes = <<>>
          /\ importOutcome[1].error =
                IF outerThrown[1].isError THEN outerThrown[1].message
                ELSE fallbackOf(importCall.variant)

\* The viewport call of the select/focus step throws after two records
\* were placed and selected.
C14_Witness ==
    /\ importPc = "returned"
    /\ outerThrown = <<SinkError>>
    /\ Len(page) = 2
    /\ selection # <<>>
    /\ viewport = "initial"
    /\ importOutcome[1].success = FALSE
    /\ importOutcome[1].error = <<"sink failed">>

\* The 0-based index, in the input list, of the record a node was made for.
indexOfRecord(name) ==
    (CHOOSE k \in 1..Len(importCall.images) : importCall.images[k].name = name) - 1

\* C15, as claimed: in importToFigma every placed item with 0-based index i
\* in the input list is positioned at x = (i mod imagesPerRow) * (imageSize +
\* spacing), y = floor(i / imagesPerRow) * (imageSize + spacing); with
\* imagesPerRow=3, imageSize=200, spacing=20 the item of index 3 is at x=0,
\* y=220.
C15_GridPositionByIndex ==
    importCall.variant = "importToFigma" =>
        LET settings == spread(DEFAULT_IMPORT_SETTINGS, importCall.options)
            step == settings.imageSize + settings.spacing
        IN  \A k \in 1..Len(page) :
                LET node == created[page[k]]
                    i == indexOfRecord(node.name)
                IN  /\ node.x = (i % settings.imagesPerRow) * step
                    /\ node.y = (i \div settings.imagesPerRow) * step

\* The records of the call whose per-record try block has completed without
\* a throw, as a count.
succeededCount == Cardinality({k \in 1..Len(itemThrown) : itemThrown[k] = <<>>})

\* C16: importToFigJam pushes exactly two nodes per successfully imported
\* record, the sticky note immediately followed by the image rectangle of the
\* same record; at return nodes.length = 2 * importedCount.
C16_StickyThenRectanglePairs ==
    importCall.variant = "importToFigJam" =>
        /\ Len(nodes) = 2 * succeededCount
        /\ \A j \in 1..succeededCount :
              LET first == created[nodes[2 * j - 1]]
                  second == created[nodes[2 * j]]
              IN  /\ first.type = "STICKY"
                  /\ second.type = "RECTANGLE"
                  /\ second.name = first.characters \o <<" (Image)">>
        /\ importPc = "returned" =>
              Len(importOutcome[1].nodes) = 2 * importOutcome[1].importedCount
        /\ (importPc = "returned" /\ importOutcome[1].success) =>
              /\ importOutcome[1].nodes = nodes
              /\ importOutcome[1].importedCount = succeededCount

\* Two records, both imported: importedCount = 2 and four nodes.
C16_Witness ==
    /\ importPc = "returned"
    /\ importCall.variant = "importToFigJam"
    /\ Len(importCall.images) = 2
    /\ importOutcome[1].success
    /\ importOutcome[1].importedCount = 2
    /\ Len(importOutcome[1].nodes) = 4
    /\ created[importOutcome[1].nodes[1]].type = "STICKY"
    /\ created[importOutcome[1].nodes[2]].type = "RECTANGLE"

\* C17: in importToFigJam the k-th successfully placed record (k from 0 over
\* the records placed so far) has its sticky note at x = (k * 200) mod 1200,
\* y = 250 * floor(k / 6), and its 150x150 image rectangle at the same x,
\* 170 above.
C17_StickyRowsOfSix ==
    importCall.variant = "importToFigJam" =>
        \A k \in 0..((Len(nodes) \div 2) - 1) :
            LET sticky == created[nodes[2 * k + 1]]
                rect == created[nodes[2 * k + 2]]
            IN  /\ sticky.x = (k * 200) % 1200
                /\ sticky.y = 250 * (k \div 6)
                /\ rect.x = sticky.x
                /\ rect.y = sticky.y - 170
                /\ rect.width = 150
                /\ rect.height = 150

\* A seventh record placed, after one that failed: it starts the second row.
C17_Witness ==
    /\ importCall.variant = "importToFigJam"
    /\ Len(nodes) = 14
    /\ \E k \in 1..Len(itemThrown) : itemThrown[k] # <<>>
    /\ created[nodes[13]].x = 0
    /\ created[nodes[13]].y = 250
    /\ created[nodes[11]].x = 1000
    /\ created[nodes[14]].y = 80

\* The slides of the canvas that hold something.
populatedSlides ==
    {k \in 1..Len(created) : created[k].type = "SLIDE" /\ created[k].children # <<>>}

\* C18: in importToSlides every populated slide holds one image rectangle of
\* width min(800, 80% of the slide width) and height min(600, 80% of the
\* slide height), centered on the slide, with 1920x1080 assumed when the
\* slide reports no size; the rectangle lies inside the slide, and the
\* importedCount of a successful call is the number of slides populated.
C18_CenteredCappedRectangle ==
    importCall.variant = "importToSlides" =>
        /\ \A k \in populatedSlides :
              LET slide == created[k]
                  slideWidth == IF slide.width = 0 THEN 1920 ELSE slide.width
                  slideHeight == IF slide.height = 0 THEN 1080 ELSE slide.height
                  rect == created[slide.children[1]]
              IN  /\ Len(slide.children) = 1
                  /\ rect.type = "RECTANGLE"
                  /\ 10 * rect.width = Min(8000, 8 * slideWidth)
                  /\ 10 * rect.height = Min(6000, 8 * slideHeight)
                  /\ 2 * rect.x = slideWidth - rect.width
                  /\ 2 * rect.y = slideHeight - rect.height
                  /\ rect.x >= 0 /\ rect.x + rect.width <= slideWidth
                  /\ rect.y >= 0 /\ rect.y + rect.height <= slideHeight
        /\ (importPc = "returned" /\ importOutcome[1].success) =>
              /\ importOutcome[1].importedCount = Cardinality(populatedSlides)
              /\ {importOutcome[1].nodes[j] : j \in 1..Len(importOutcome[1].nodes)}
                    = populatedSlides

\* A call on a deck whose slides report no size: two slides populated at
\* 1920x1080, a third left empty.
C18_Witness ==
    /\ importCall.variant = "importToSlides"
    /\ importPc = "returned"
    /\ importOutcome[1].success
    /\ importOutcome[1].importedCount = 2
    /\ \E k \in 1..Len(created) : created[k].type = "SLIDE" /\ created[k].children = <<>>
    /\ \A k \in populatedSlides :
          /\ created[k].width = 0
          /\ created[created[k].children[1]].width = 800
          /\ created[created[k].children[1]].height = 600
          /\ created[created[k].children[1]].x = 560
          /\ created[created[k].children[1]].y = 240

\* The 0-based index of the record the k-th download request was issued for:
\* a record without download URL issues none.
recordOfRequest(k) ==
    (CHOOSE j \in 1..Len(importCall.images) :
        /\ ~hasNoDownloadUrl(importCall.images[j])
        /\ Cardinality({h \in 1..j : ~hasNoDownloadUrl(importCall.images[h])}) = k) - 1

\* C19: in every import variant the progress event of item i, with percent
\* i/total*100, is emitted before that item's download starts (and after the
\* work on the items before it); the percents emitted during one call are
\* non-decreasing and stay within 0..100; and when the call succeeds exactly
\* one final event with percent 100 is emitted, after the last item's work.
C19_ProgressBeforeWork ==
    LET total == Len(importCall.images)
        events == importProgress
        isFinal(j) == importPc = "returned" /\ importOutcome[1].success /\ j = Len(events)
    IN  importPc # "idle" =>
        /\ \A j \in 2..Len(events) :
              IF isFinal(j)
              THEN /\ events[j].percent = whole(100)
                   /\ events[j].handled = total
                   /\ events[j].requests = Len(downloads)
              ELSE /\ events[j].percent = percent(j - 2, total)
                   /\ events[j].handled = j - 2
        /\ \A k \in 1..Len(downloads) :
              LET i == recordOfRequest(k)
              IN  /\ Len(events) >= i + 2
                  /\ events[i + 2].percent = percent(i, total)
                  /\ events[i + 2].requests = k - 1
        /\ \A j \in 1..Len(events) :
              /\ events[j].percent.num >= 0
              /\ events[j].percent.num <= 100 * events[j].percent.den
        /\ \A j \in 1..(Len(events) - 1) :
              events[j].percent.num * events[j + 1].percent.den
                 <= events[j + 1].percent.num * events[j].percent.den
        /\ (importPc = "returned" /\ importOutcome[1].success) =>
              /\ Len(events) = total + 2
              /\ Cardinality({j \in 1..Len(events) :
                     events[j].percent.num = 100 * events[j].percent.den}) = 1

\* A successful call on three records, the second without download URL and
\* the third failed: 0, 0, 33.3, 66.7 and the final 100.
C19_Witness ==
    /\ importPc = "returned"
    /\ importOutcome[1].success
    /\ Len(importCall.images) = 3
    /\ Len(importProgress) = 5
    /\ Len(downloads) = 2
    /\ importProgress[3].percent = [num |-> 100, den |-> 3]
    /\ importProgress[4].percent = [num |-> 200, den |-> 3]
    /\ importProgress[4].requests = 1
    /\ importProgress[5].percent = whole(100)
    /\ importProgress[5].handled = 3
    /\ itemThrown[3] # <<>>

\* The messages that end a request of the kind received.
terminalTypes ==
    IF received.type = "scan-drive" THEN {"scan-complete", "error"}
    ELSE {"import-complete", "error"}

\* The progress messages of a request of the kind received.
progressType ==
    IF received.type = "scan-drive" THEN "scan-progress" ELSE "import-progress"

\* C20: for every scan-drive or import-images message received, the plugin
\* posts exactly one terminal message to the UI (scan-complete or error for
\* a scan, import-complete or error for an import), after every progress
\* message of that request; no request is left without a terminal message.
C20_OneTerminalMessage ==
    /\ [](handlerPc = "awaiting" =>
            \A k \in 1..Len(posted) : posted[k].type = progressType)
    /\ [](handlerPc = "done" =>
            /\ Len(posted) >= 1
            /\ posted[Len(posted)].type \in terminalTypes
            /\ \A k \in 1..(Len(posted) - 1) : posted[k].type = progressType)
    /\ (handlerPc = "awaiting") ~> (handlerPc = "done")

\* An import whose second record failed: three progress messages, then
\* import-complete with count 1.
C20_Witness ==
    /\ handlerPc = "done"
    /\ received.type = "import-images"
    /\ Len(posted) = 5
    /\ posted[5] = [type |-> "import-complete", count |-> 1]
    /\ posted[4].type = "import-progress"

\* C21: a download or placement failure of individual records during an
\* import never produces an error message to the UI: with no failure outside
\* the per-record try blocks, the handler ends the import with
\* import-complete whose count is the number of records that succeeded, also
\* when every record failed (count 0).  The one error message such an import
\* can end with is that of a postMessage call that threw, never a record's.
C21_RecordFailuresAreNotSurfaced ==
    (handlerPc = "done" /\ received.type = "import-images") =>
        /\ outerThrown = <<>> =>
              \/ posted[Len(posted)] =
                    [type |-> "import-complete", count |-> succeededCount]
              \/ \E v \in SinkThrowables : posted[Len(posted)] = errorMessage(v)
        /\ \A k \in 1..Len(posted) : \A j \in 1..Len(itemThrown) :
              (posted[k].type = "error" /\ itemThrown[j] # <<>>) =>
                  posted[k].message # itemThrown[j][1].message

\* Both records of an import failed, one in its download and one in its
\* placement: import-complete with count 0.
C21_Witness ==
    /\ handlerPc = "done"
    /\ received.type = "import-images"
    /\ Len(itemThrown) = 2
    /\ itemThrown[1] # <<>>
    /\ itemThrown[2] = <<CreateImageError>>
    /\ itemThrown[1] # <<CreateImageError>>
    /\ posted[Len(posted)] = [type |-> "import-complete", count |-> 0]

\* The listing requests the scan has issued, in order.
listingRequests == SelectSeq(requests, LAMBDA r : r.api = "files.list")

\* C22: a scan whose URL parses issues exactly one listing request (page
\* size 100, no page token), whatever nextPageToken the response carries;
\* records beyond the first page are never part of the outcome or of
\* totalFound.
C22_OneListingRequest ==
    (scanPc \notin {"idle", "called"} /\ ~hasNoFolderId(folderId)) =>
        /\ Len(listingRequests) <= 1
        /\ scanPc \in {"awaitListing", "returned", "rejected"} =>
              /\ Len(listingRequests) = 1
              /\ listingRequests[1].folderId = folderId
              /\ listingRequests[1].pageSize = 100
              /\ listingRequests[1].pageToken = undefined
        /\ (scanPc = "returned" /\ scanOutcome[1].success) =>
              /\ scanOutcome[1].totalFound <= Len(listedFiles)
              /\ \A k \in 1..Len(scanOutcome[1].images) :
                    \E j \in 1..Len(listedFiles) :
                        scanOutcome[1].images[k] = listedFiles[j]

\* A successful scan of a first page that announces a second one.
C22_Witness ==
    /\ scanPc = "returned"
    /\ scanOutcome[1].success
    /\ listingResponse[1].type = "response"
    /\ listingResponse[1].body.nextPageToken = <<"page-2">>
    /\ Len(scanOutcome[1].images) = 2
    /\ Len(listingRequests) = 1
    /\ Len(requests) = 2

\* C23, as claimed: folders larger than one page are handled through
\* nextPageToken pagination: a scan whose listing answer carries a
\* nextPageToken requests the next page with that token before it returns
\* its outcome.
C23_PaginatesWhileTokenPresent ==
    (/\ scanPc = "returned"
     /\ scanOutcome[1].success
     /\ listingResponse[1].type = "response"
     /\ listingResponse[1].body.nextPageToken # undefined) =>
        \E k \in 1..Len(listingRequests) :
            listingRequests[k].pageToken = listingResponse[1].body.nextPageToken

\* The listing request got no successful answer.
listingFailed ==
    /\ listingResponse # <<>>
    /\ \/ listingResponse[1].type = "rejected"
       \/ ~ok(listingResponse[1])

\* C24: no request is retried: after a failed listing request a scan issues
\* no further listing request, and during an import each record is
\* downloaded with at most one request, also when that request fails; the
\* configured maxRetries and retryDelay never cause a second attempt.
C24_NoRetry ==
    /\ listingFailed => Len(listingRequests) = 1
    /\ Len(downloads) <= Len(importCall.images)
    /\ \A j \in 1..Len(downloads) : \A k \in 1..Len(downloads) :
          downloads[j] = downloads[k] => j = k
    /\ \A j \in 1..Len(downloads) :
          downloads[j] = importCall.images[recordOfRequest(j) + 1].downloadUrl

\* With retries configured, an import whose first download failed has gone
\* on to the second record after one request each.
C24_Witness ==
    /\ API_CONFIG.maxRetries > 0
    /\ handlerPc = "done"
    /\ received.type = "import-images"
    /\ Len(answers) = 2
    /\ answers[1].type = "response"
    /\ answers[1].status = 404
    /\ answers[2].type = "rejected"
    /\ Len(downloads) = 2
    /\ downloads[1] # downloads[2]

\* The folder-info request was rejected or answered with a non-success
\* status.
folderInfoFailed ==
    /\ folderInfoResponse # <<>>
    /\ \/ folderInfoResponse[1].type = "rejected"
       \/ ~ok(folderInfoResponse[1])

\* The listing request was answered with a page the scan can read and filter.
listingSucceeded ==
    /\ listingResponse # <<>>
    /\ listingResponse[1].type = "response"
    /\ ok(listingResponse[1])
    /\ listingResponse[1].body.parses
    /\ ~filterThrows(listedFiles)

\* C25: a failure of the folder-info request (non-success status or rejected
\* request) never fails the scan: getFolderInfo returns null, the scan
\* proceeds to listing, and if listing succeeds the outcome is success=true
\* with folderName absent; folderName is present only when folder info was
\* obtained.
C25_FolderInfoIsBestEffort ==
    /\ folderInfoFailed =>
          /\ folderInfo = <<>>
          /\ scanPc \in {"awaitListing", "returned"}
          /\ Len(listingRequests) = 1
          /\ (scanPc = "returned" /\ listingSucceeded) =>
                /\ scanOutcome[1].success
                /\ scanOutcome[1].folderName = undefined
    /\ (scanPc = "returned" /\ scanOutcome[1].success
           /\ scanOutcome[1].folderName # undefined) =>
          /\ folderInfoResponse[1].type = "response"
          /\ ok(folderInfoResponse[1])
          /\ folderInfoResponse[1].body.parses
          /\ scanOutcome[1].folderName = folderInfoResponse[1].body.name

\* Folder info answered 404, the listing answered with images: a successful
\* scan without folder name.
C25_Witness ==
    /\ scanPc = "returned"
    /\ folderInfoResponse # <<>>
    /\ folderInfoResponse[1].type = "response"
    /\ folderInfoResponse[1].status = 404
    /\ listingSucceeded
    /\ scanOutcome[1].success
    /\ Len(scanOutcome[1].images) = 2
    /\ scanOutcome[1].folderName = undefined

\* A message text holds the status code and the reason text of an answer.
carriesStatus(message, response) ==
    /\ \E k \in 1..Len(message) : message[k] = ToString(response.status)
    /\ \E k \in 1..Len(message) : message[k] = response.statusText

\* C26: when the listing request is answered with a non-success status other
\* than 401/403, the scan outcome is success=false with an error message
\* that carries the status code and reason text; likewise a download
\* answered with a non-success status makes downloadFile fail with a message
\* carrying the status code and reason text.
C26_TransportErrorCarriesStatus ==
    /\ (/\ scanPc = "returned"
        /\ listingResponse # <<>>
        /\ listingResponse[1].type = "response"
        /\ ~ok(listingResponse[1])
        /\ listingResponse[1].status \notin {401, 403}) =>
          /\ ~scanOutcome[1].success
          /\ carriesStatus(scanOutcome[1].error, listingResponse[1])
    /\ \A k \in 1..Len(answers) :
          (answers[k].type = "response" /\ ~ok(answers[k])) =>
              /\ k <= Len(itemThrown)
              /\ itemThrown[k] # <<>>
              /\ itemThrown[k][1].isError
              /\ carriesStatus(itemThrown[k][1].message, answers[k])

\* A scan whose listing request was answered 500.
C26_Witness ==
    /\ handlerPc = "done"
    /\ scanPc = "returned"
    /\ listingResponse # <<>>
    /\ listingResponse[1].type = "response"
    /\ listingResponse[1].status = 500
    /\ scanOutcome[1].error =
          <<"API request failed: ", "500", " ", "Internal Server Error">>
    /\ posted[Len(posted)] = [type |-> "error", message |-> scanOutcome[1].error]

\* The percents of the scan's progress events, in order.
scanPercents == [k \in 1..Len(progressEvents) |-> progressEvents[k].percent]

\* C27: during one scan the progress events are emitted in the fixed order
\* 0, 10, 20, 60, 80, 100, each before its stage starts (0 before parsing,
\* 10 before the folder-info request, 20 before the listing request, 60
\* before filtering, 80 before truncation); the 100 event is emitted only
\* when the scan succeeds, and a failed scan emits a strict prefix of that
\* sequence.
C27_ScanProgressOrder ==
    LET full == <<0, 10, 20, 60, 80, 100>>
        stageRequests == <<0, 0, 1, 2, 2, 2>>
    IN  scanPc # "idle" =>
        /\ Len(scanPercents) <= 6
        /\ \A k \in 1..Len(scanPercents) :
              /\ scanPercents[k] = full[k]
              /\ progressEvents[k].requests = stageRequests[k]
        /\ scanPc = "awaitFolderInfo" => scanPercents = <<0, 10>>
        /\ scanPc = "awaitListing" => scanPercents = <<0, 10, 20>>
        /\ (scanPc = "returned" /\ scanOutcome[1].success) => scanPercents = full
        /\ (scanPc = "returned" /\ ~scanOutcome[1].success) =>
              /\ Len(scanPercents) < 6
              /\ hasNoFolderId(folderId) => scanPercents = <<0>>
              /\ (caught # <<>> /\ raised[Len(raised)].stage = "listing") =>
                    scanPercents = <<0, 10, 20>>
              /\ (caught # <<>> /\ raised[Len(raised)].stage = "filter") =>
                    scanPercents = <<0, 10, 20, 60>>

\* A scan that failed while filtering: 0, 10, 20 and 60 were emitted.
C27_Witness ==
    /\ scanPc = "returned"
    /\ ~scanOutcome[1].success
    /\ caught = <<TypeErrorToLowerCase>>
    /\ scanPercents = <<0, 10, 20, 60>>
    /\ progressEvents[4].requests = 2

\* C28: an import that collected no node (empty list, or every record
\* failed) assigns no selection and does not move the viewport, and, with no
\* failure outside the per-record try blocks, returns success = true,
\* importedCount = 0, nodes = [].  When at least one node was collected the
\* selection is assigned once, after the loop and never during it, to
\* exactly the list the call returns.
C28_SelectionOnlyWhenNodes ==
    /\ importPc \in {"called", "downloading"} =>
          /\ selection = <<>>
          /\ viewport = "initial"
    /\ (importPc = "returned" /\ nodes = <<>>) =>
          /\ selection = <<>>
          /\ viewport = "initial"
          /\ outerThrown = <<>> =>
                importOutcome[1] =
                    [success |-> TRUE, importedCount |-> 0, nodes |-> <<>>]
    /\ (importPc = "returned" /\ (\A j \in 1..Len(itemThrown) : itemThrown[j] # <<>>)) =>
          nodes = <<>>
    /\ (importPc = "returned" /\ nodes # <<>> /\ outerThrown = <<>>) =>
          /\ selection = <<nodes>>
          /\ importOutcome[1].success
          /\ importOutcome[1].nodes = nodes
          /\ viewport = IF importCall.variant = "importToSlides"
                        THEN "grid" ELSE "zoomed"

\* An import of two records that both failed: no selection, the viewport
\* where it was, a successful result with no node.
C28_Witness ==
    /\ importPc = "returned"
    /\ Len(importCall.images) = 2
    /\ Len(itemThrown) = 2
    /\ itemThrown[1] # <<>>
    /\ itemThrown[2] # <<>>
    /\ outerThrown = <<>>
    /\ selection = <<>>
    /\ viewport = "initial"
    /\ importOutcome[1] = [success |-> TRUE, importedCount |-> 0, nodes |-> <<>>]

\* The download URLs of the records of a list that have one, in order.
urlsOf(list) ==
    LET withUrl == SelectSeq(list, LAMBDA f : ~hasNoDownloadUrl(f))
    IN  [k \in 1..Len(withUrl) |-> withUrl[k].downloadUrl]

\* The records whose round has begun: those handled and the one awaited.
recordsStarted ==
    IF importPc = "downloading" THEN Len(itemThrown) + 1 ELSE Len(itemThrown)

\* The download requests issued and not yet settled.
inFlight ==
    Len(downloads) - Cardinality({j \in 1..Len(answers) : answers[j] # NoRequest})

\* C29: within one import call the records are processed strictly one after
\* another: the download of a record starts only after every record before
\* it has been placed or has failed (the requests issued are those of the
\* records handled and of the one awaited, in the order of the list), and
\* at no time is more than one download in flight.
C29_OneRecordAtATime ==
    importPc # "idle" =>
        /\ inFlight \in {0, 1}
        /\ inFlight = 1 => importPc = "downloading"
        /\ Len(answers) = Len(itemThrown)
        /\ importPc = "downloading" =>
              /\ importIndex = Len(itemThrown)
              /\ inFlight = IF hasNoDownloadUrl(importCall.images[importIndex + 1])
                            THEN 0 ELSE 1
        /\ downloads = urlsOf(SubSeq(importCall.images, 1, recordsStarted))

\* The second record's download is in flight; the first record has failed.
C29_Witness ==
    /\ importPc = "downloading"
    /\ importIndex = 1
    /\ Len(downloads) = 2
    /\ inFlight = 1
    /\ Len(itemThrown) = 1
    /\ itemThrown[1] # <<>>

(***************************************************************************)
(* Two calls in progress at once: two imports, or a scan and an import.    *)
(* Each call runs from one await to the next without interruption; between *)
(* two awaits of one call the other call may run.  Two imports share the   *)
(* canvas and nothing else.  The sinks do not throw here.                  *)
(***************************************************************************)
NoSinkFailure == [at |-> 0, value |-> SinkError]

\* From the call to the first await.
startOf(call, L, slideSize) ==
    beginItem(call.variant, call.images,
              [sinkCalled(L) EXCEPT
                  !.progress = Append(@, progressEvent(L, whole(0)))],
              NoSinkFailure, slideSize)

\* From the answer to a download to the next await or to the return.
resumeOf(call, L, answer, slideSize) ==
    LET image == call.images[L.i + 1]
        settings == spread(DEFAULT_IMPORT_SETTINGS, call.options)
        L1 == afterDownload(call.variant, settings, image, L, answer)
        failed == L1.itemThrown[Len(L1.itemThrown)] # <<>>
        L2 == [L1 EXCEPT !.i = nextIndex(@, Len(call.images), failed)]
    IN  beginItem(call.variant, call.images, L2, NoSinkFailure, slideSize)

\* A second call whose position cursor is the one of the first call.
secondState_sharedCursor ==
    [pc |-> secondCall.pc, i |-> secondCall.i, nodes |-> secondCall.nodes,
     currentX |-> currentX, currentY |-> currentY,
     slide |-> secondCall.slide, created |-> created, page |-> page,
     selection |-> selection, viewport |-> viewport,
     progress |-> secondCall.progress, downloads |-> secondCall.downloads,
     itemThrown |-> secondCall.itemThrown,
     outerThrown |-> secondCall.outerThrown, outcome |-> secondCall.outcome,
     calls |-> 0]

\* The locals of the second call and the canvas, as one record.
secondState ==
    [pc |-> secondCall.pc, i |-> secondCall.i, nodes |-> secondCall.nodes,
     currentX |-> secondCall.currentX, currentY |-> secondCall.currentY,
     slide |-> secondCall.slide, created |-> created, page |-> page,
     selection |-> selection, viewport |-> viewport,
     progress |-> secondCall.progress, downloads |-> secondCall.downloads,
     itemThrown |-> secondCall.itemThrown,
     outerThrown |-> secondCall.outerThrown, outcome |-> secondCall.outcome,
     calls |-> 0]

secondBecomes(L, answerLog) ==
    /\ secondCall' =
          [secondCall EXCEPT
              !.pc = L.pc, !.i = L.i, !.nodes = L.nodes,
              !.currentX = L.currentX, !.currentY = L.currentY,
              !.slide = L.slide, !.progress = L.progress,
              !.downloads = L.downloads, !.itemThrown = L.itemThrown,
              !.outerThrown = L.outerThrown, !.outcome = L.outcome,
              !.answers = answerLog]
    /\ created' = L.created
    /\ page' = L.page
    /\ selection' = L.selection
    /\ viewport' = L.viewport
    /\ UNCHANGED <<importCall, importPc, importIndex, nodes, currentX, currentY,
                   currentSlide, importProgress, downloads, itemThrown,
                   outerThrown, importOutcome, answers>>

\* The sizes figma.createSlide() can give the next slide of the deck.
deckSizes(variant) ==
    LET slidesMade == {k \in 1..Len(created) : created[k].type = "SLIDE"}
    IN  IF variant # "importToSlides" THEN {[width |-> 0, height |-> 0]}
        ELSE IF slidesMade = {} THEN SlideSizes
        ELSE LET k == CHOOSE j \in slidesMade : TRUE
             IN  {[width |-> created[k].width, height |-> created[k].height]}

FirstCallStarts ==
    /\ importPc = "called"
    /\ \E slideSize \in deckSizes(importCall.variant) :
          importBecomes(startOf(importCall, importState, slideSize))
    /\ UNCHANGED <<importCall, answers, secondCall, harnessVars, scanVars,
                   pluginVars>>

FirstCallResumes ==
    /\ importPc = "downloading"
    /\ \E answer \in DownloadAnswers,
          slideSize \in deckSizes(importCall.variant) :
          /\ importBecomes(resumeOf(importCall, importState, answer, slideSize))
          /\ answers' = Append(answers,
                               IF hasNoDownloadUrl(importCall.images[importIndex + 1])
                               THEN NoRequest ELSE answer)
    /\ UNCHANGED <<importCall, secondCall, harnessVars, scanVars, pluginVars>>

SecondCallStarts ==
    /\ secondCall.pc = "called"
    /\ \E slideSize \in deckSizes(secondCall.call.variant) :
          secondBecomes(startOf(secondCall.call, secondState, slideSize),
                        secondCall.answers)
    /\ UNCHANGED <<harnessVars, scanVars, pluginVars>>

SecondCallResumes ==
    /\ secondCall.pc = "downloading"
    /\ \E answer \in DownloadAnswers,
          slideSize \in deckSizes(secondCall.call.variant) :
          secondBecomes(
              resumeOf(secondCall.call, secondState, answer, slideSize),
              Append(secondCall.answers,
                     IF hasNoDownloadUrl(secondCall.call.images[secondCall.i + 1])
                     THEN NoRequest ELSE answer))
    /\ UNCHANGED <<harnessVars, scanVars, pluginVars>>

OverlapLists == { <<ImgA, ImgB>>, <<ImgC, ImgNoUrl, ImgA>> }

OverlapCalls ==
    {[variant |-> "importToFigma", images |-> s, options |-> o] :
        s \in OverlapLists, o \in FigmaOptions}
    \cup {[variant |-> v, images |-> s, options |-> NoOptions] :
            v \in {"importToFigJam", "importToSlides"}, s \in OverlapLists}

\* The scan that runs beside an import.
OverlapScanArgs ==
    [folderUrl |-> ScenarioUrl, allowedTypes |-> <<TagPng, TagJpg>>,
     maxImages |-> DefaultMaxImagesInput]

\* The imports that run beside another call.
BesideCalls == {c \in OverlapCalls : c.images = <<ImgA, ImgB>>}

\* The import that runs beside the scan.
BesideScan ==
    [variant |-> "importToFigma", images |-> <<ImgA, ImgB>>,
     options |-> [createComponents |-> FALSE, imagesPerRow |-> 2]]

InitOverlap ==
    /\ HarnessIdle
    /\ PluginIdle
    /\ \/ /\ ScanIdle
          /\ importCall \in OverlapCalls
          /\ secondCall \in {freshLocals(c, "called") : c \in BesideCalls}
       \/ /\ scanImpl = "code.ts"
          /\ scanArgs = OverlapScanArgs
          /\ scanPc = "called"
          /\ folderId = null
          /\ folderInfo = <<>>
          /\ progressEvents = <<>>
          /\ requests = <<>>
          /\ raised = <<>>
          /\ caught = <<>>
          /\ listingResponse = <<>>
          /\ folderInfoResponse = <<>>
          /\ scanOutcome = <<>>
          /\ isInitialized = FALSE
          /\ importCall = BesideScan
          /\ secondCall = NoSecondCall
    /\ importPc = "called"
    /\ importIndex = 0
    /\ nodes = <<>>
    /\ currentX = 0
    /\ currentY = 0
    /\ currentSlide = 0
    /\ created = <<>>
    /\ page = <<>>
    /\ selection = <<>>
    /\ viewport = "initial"
    /\ importProgress = <<>>
    /\ downloads = <<>>
    /\ itemThrown = <<>>
    /\ outerThrown = <<>>
    /\ importOutcome = <<>>
    /\ answers = <<>>

NextOverlap ==
    \/ FirstCallStarts
    \/ FirstCallResumes
    \/ SecondCallStarts
    \/ SecondCallResumes
    \/ ScanStart
    \/ FolderInfoAnswered
    \/ ListingAnswered

SpecOverlap == InitOverlap /\ [][NextOverlap]_vars

\* The call run alone on an empty canvas, given the answers its downloads
\* got so far.
emptyCanvasState ==
    [pc |-> "called", i |-> 0, nodes |-> <<>>, currentX |-> 0, currentY |-> 0,
     slide |-> 0, created |-> <<>>, page |-> <<>>, selection |-> <<>>,
     viewport |-> "initial", progress |-> <<>>, downloads |-> <<>>,
     itemThrown |-> <<>>, outerThrown |-> <<>>, outcome |-> <<>>, calls |-> 0]

RECURSIVE continueAlone(_, _, _, _)
continueAlone(call, L, answerLog, slideSize) ==
    IF L.pc # "downloading" \/ Len(L.itemThrown) >= Len(answerLog) THEN L
    ELSE continueAlone(call,
                       [resumeOf(call, L, answerLog[Len(L.itemThrown) + 1],
                                 slideSize) EXCEPT !.calls = 0],
                       answerLog, slideSize)

runAlone(call, started, answerLog, slideSize) ==
    IF ~started THEN emptyCanvasState
    ELSE continueAlone(call,
                       [startOf(call, emptyCanvasState, slideSize) EXCEPT !.calls = 0],
                       answerLog, slideSize)

\* A node without its identifier, its children likewise.
shapeOf(canvas, id) ==
    LET n == canvas[id]
    IN  IF "children" \in DOMAIN n
        THEN [node |-> [n EXCEPT !.id = 0, !.children = <<>>],
              children |-> [k \in 1..Len(n.children) |->
                               [canvas[n.children[k]] EXCEPT !.id = 0]]]
        ELSE [node |-> [n EXCEPT !.id = 0], children |-> <<>>]

shapesOf(canvas, nodeList) ==
    [k \in 1..Len(nodeList) |-> shapeOf(canvas, nodeList[k])]

\* What a call has done as the caller can see it: its position, cursor,
\* events, requests, failures, result, and the nodes it collected.
summaryOf(L) ==
    [pc |-> L.pc, i |-> L.i, currentX |-> L.currentX, currentY |-> L.currentY,
     progress |-> L.progress, downloads |-> L.downloads,
     itemThrown |-> L.itemThrown,
     collected |-> shapesOf(L.created, L.nodes),
     outcome |-> IF L.outcome = <<>> THEN <<>>
                 ELSE <<[L.outcome[1] EXCEPT
                            !.nodes = shapesOf(L.created, L.outcome[1].nodes)]>>]

\* The size of the slides a call has seen (none before its first slide).
sizeSeen(slide) ==
    IF slide = 0 THEN [width |-> 0, height |-> 0]
    ELSE [width |-> created[slide].width, height |-> created[slide].height]

\* The scan run alone, given the answers its two requests got.
scanAlone ==
    LET info == getFolderInfo(folderInfoResponse[1])
        rest == afterListing(scanImpl, scanArgs, info, listingResponse[1])
    IN  settle(rest.thrown, rest.result).value

\* C30: when two calls overlap (two imports, or a scan and an import,
\* interleaving at their awaits), each call's outcome (importedCount, the
\* nodes it returns, their positions; the scan's result) is what the call
\* produces when it runs alone with the same answers to its requests: no
\* position cursor and no node list is shared between calls.
C30_OverlappingCallsAreIndependent ==
    /\ importPc # "idle" =>
          summaryOf(importState) =
              summaryOf(runAlone(importCall, importPc # "called", answers,
                                 sizeSeen(currentSlide)))
    /\ secondCall.pc # "idle" =>
          summaryOf(secondState) =
              summaryOf(runAlone(secondCall.call, secondCall.pc # "called",
                                 secondCall.answers, sizeSeen(secondCall.slide)))
    /\ scanPc = "returned" => scanOutcome = <<scanAlone>>

\* Two importToFigma calls that took turns: the second call placed its
\* first node, at the origin, between the first call's two nodes.
C30_Witness ==
    /\ importPc = "returned"
    /\ secondCall.pc = "returned"
    /\ importCall.variant = "importToFigma"
    /\ secondCall.call.variant = "importToFigma"
    /\ Len(nodes) = 2
    /\ Len(secondCall.nodes) = 2
    /\ nodes[1] < secondCall.nodes[1]
    /\ secondCall.nodes[1] < nodes[2]
    /\ created[secondCall.nodes[1]].x = 0
    /\ created[nodes[2]].x > 0
    /\ importOutcome[1].importedCount = 2
    /\ secondCall.outcome[1].importedCount = 2

(***************************************************************************)
(* ui.html and the plugin as the UI sees it.  The UI sends scan-drive and  *)
(* import-images; the message handler of the plugin runs once per message, *)
(* the runs interleave at their awaits, and each run ends with one         *)
(* terminal message; the messages posted reach window.onmessage in order.  *)
(***************************************************************************)
\* resetUI, lines 352-355: only the Scan button is enabled again.
resetUI(u) == [u EXCEPT !.scanDisabled = FALSE]

\* showResults, lines 381-466: resetUI, then the results and the Import
\* button's handler unless the list is empty.
showResults(u, images) ==
    IF images = 0 THEN resetUI(u)
    ELSE [resetUI(u) EXCEPT !.resultsShown = TRUE]

\* window.onmessage, lines 328-345.
onmessage(u, message) ==
    CASE message.type = "scan-progress" -> u
      [] message.type = "scan-complete" -> showResults(u, message.images)
      [] message.type = "error" -> resetUI(u)
      [] message.type = "import-progress" -> u
      [] message.type = "import-complete" -> resetUI(u)

\* The click handler of the Scan button, lines 260-291; a disabled button
\* gives no click.
ScanButtonClick ==
    /\ ~ui.scanDisabled
    /\ ui.clicks < MaxClicks
    /\ \E driveLink \in {"", "link"} :
          ui' = IF driveLink = ""
                THEN [ui EXCEPT !.clicks = @ + 1]
                ELSE [ui EXCEPT !.clicks = @ + 1,
                                !.scanDisabled = TRUE,
                                !.handling = Append(@, [type |-> "scan-drive",
                                                        progressed |-> FALSE])]
    /\ UNCHANGED <<editorType, received, handlerPc, posted, harnessVars,
                   scanVars, importVars>>

\* importButton.onclick, lines 438-465: set by showResults, so the button
\* must be shown and enabled.
ImportButtonClick ==
    /\ ui.resultsShown
    /\ ~ui.importDisabled
    /\ ui.clicks < MaxClicks
    /\ \E selectedImages \in {0, 1} :
          ui' = IF selectedImages = 0
                THEN [ui EXCEPT !.clicks = @ + 1]
                ELSE [ui EXCEPT !.clicks = @ + 1,
                                !.importDisabled = TRUE,
                                !.handling = Append(@, [type |-> "import-images",
                                                        progressed |-> FALSE])]
    /\ UNCHANGED <<editorType, received, handlerPc, posted, harnessVars,
                   scanVars, importVars>>

\* The sequence without its k-th element.
without(seq, k) == SubSeq(seq, 1, k - 1) \o SubSeq(seq, k + 1, Len(seq))

\* A run of the message handler posts a progress message.
PluginPostsProgress ==
    /\ \E k \in 1..Len(ui.handling) :
          /\ ~ui.handling[k].progressed
          /\ ui' = [ui EXCEPT
                       !.handling[k].progressed = TRUE,
                       !.inbox = Append(@,
                           [type |-> IF ui.handling[k].type = "scan-drive"
                                     THEN "scan-progress" ELSE "import-progress",
                            re |-> ui.handling[k].type, images |-> 0])]
    /\ UNCHANGED <<editorType, received, handlerPc, posted, harnessVars,
                   scanVars, importVars>>

\* A run of the message handler ends: scan-complete, import-complete or
\* error.
PluginAnswers ==
    /\ \E k \in 1..Len(ui.handling) :
          \E answer \in IF ui.handling[k].type = "scan-drive"
                        THEN {[type |-> "scan-complete", images |-> n] : n \in {0, 2}}
                             \cup {[type |-> "error", images |-> 0]}
                        ELSE {[type |-> "import-complete", images |-> 0],
                              [type |-> "error", images |-> 0]} :
              ui' = [ui EXCEPT
                        !.handling = without(@, k),
                        !.inbox = Append(@, [type |-> answer.type,
                                             re |-> ui.handling[k].type,
                                             images |-> answer.images])]
    /\ UNCHANGED <<editorType, received, handlerPc, posted, harnessVars,
                   scanVars, importVars>>

\* The next message posted reaches window.onmessage.
WindowOnMessage ==
    /\ ui.inbox # <<>>
    /\ LET message == Head(ui.inbox)
           ended == message.re = "import-images"
                    /\ message.type \in {"import-complete", "error"}
       IN  ui' = [onmessage(ui, message) EXCEPT
                     !.inbox = Tail(@),
                     !.importsEnded = IF ended THEN @ + 1 ELSE @]
    /\ UNCHANGED <<editorType, received, handlerPc, posted, harnessVars,
                   scanVars, importVars>>

InitUi ==
    /\ HarnessIdle
    /\ ScanIdle
    /\ ImportIdle
    /\ PluginIdle

NextUi ==
    \/ ScanButtonClick
    \/ ImportButtonClick
    \/ PluginPostsProgress
    \/ PluginAnswers
    \/ WindowOnMessage

\* Every run of the handler ends and every message posted is delivered.
SpecUi ==
    /\ InitUi
    /\ [][NextUi]_vars
    /\ WF_vars(PluginAnswers)
    /\ WF_vars(WindowOnMessage)

\* The scan-drive messages sent and not yet answered at the UI by
\* scan-complete or error.
scansUnanswered ==
    Len(SelectSeq(ui.handling, LAMBDA r : r.type = "scan-drive"))
    + Len(SelectSeq(ui.inbox, LAMBDA m : m.re = "scan-drive"
                                         /\ m.type \in {"scan-complete", "error"}))

\* C31: the UI never sends a second scan-drive message while an earlier one
\* has not been answered by scan-complete or error: the Scan button stays
\* disabled for the whole time a scan is in flight, whichever messages of a
\* concurrent import arrive meanwhile.
C31_OneScanInFlight ==
    /\ scansUnanswered <= 1
    /\ scansUnanswered = 1 => ui.scanDisabled

\* C32: after an import has ended with import-complete or error, the Import
\* button, disabled when the import was started, eventually becomes enabled
\* again.
C32_ImportButtonEnabledAgain ==
    (ui.importsEnded > 0) ~> (~ui.importDisabled)

\* The slides on the canvas, by identifier.
slidesCreated == {k \in 1..Len(created) : created[k].type = "SLIDE"}

\* C33: in importToSlides every slide created during the call is in the
\* returned nodes list: a record whose download or placement fails leaves
\* no slide behind on the canvas.
C33_NoSlideLeftBehind ==
    (importCall.variant = "importToSlides" /\ importPc = "returned"
     /\ outerThrown = <<>>) =>
        /\ \A k \in slidesCreated :
              \E j \in 1..Len(importOutcome[1].nodes) :
                  importOutcome[1].nodes[j] = k
        /\ Cardinality(slidesCreated) = succeededCount

\* The nodes on the page that stand in the row at height y.
rowAt(y) == {k \in 1..Len(page) : created[page[k]].y = y}

\* C34: in importToFigma no row of the grid ever holds more than
\* imagesPerRow items, whichever records of the input fail to download.
C34_RowHoldsAtMostImagesPerRow ==
    importCall.variant = "importToFigma" =>
        LET settings == spread(DEFAULT_IMPORT_SETTINGS, importCall.options)
        IN  \A k \in 1..Len(page) :
                Cardinality(rowAt(created[page[k]].y)) <= settings.imagesPerRow

\* What scanFolder of an implementation returns for the arguments and the
\* answers of this scan (<<>>: the call rejects).
outcomeWith(impl) ==
    LET info == getFolderInfo(folderInfoResponse[1])
        rest == afterListing(impl, scanArgs, info, listingResponse[1])
        settled == settle(rest.thrown, rest.result)
    IN  IF settled.threw THEN <<>> ELSE <<settled.value>>

\* C35: for the same URL, type tags, maxImages and the same remote
\* responses, scanFolder of code.ts and PluginService.scanFolder backed by
\* GoogleDriveService return the same outcome (same success flag, error,
\* images and totalFound).
C35_VariantsReturnTheSame ==
    scanPc \in {"returned", "rejected"} =>
        /\ hasNoFolderId(extractFolderIdOf("code.ts", scanArgs.folderUrl))
              = hasNoFolderId(extractFolderIdOf("PluginService", scanArgs.folderUrl))
        /\ listingResponse # <<>> =>
              /\ outcomeWith(scanImpl) = scanOutcome
              /\ outcomeWith("code.ts") = outcomeWith("PluginService")

\* The records handled so far whose try block completed, in order.
succeededRecords ==
    SelectSeq([k \in 1..Len(itemThrown) |-> [record |-> importCall.images[k],
                                             failed |-> itemThrown[k] # <<>>]],
              LAMBDA r : ~r.failed)

\* C36: in importToFigma exactly one node per successfully imported record
\* is tracked in nodes and appended to the page: the component wrapping the
\* rectangle when createComponents is set, the rectangle itself otherwise;
\* the rectangle is never tracked in addition to its component.
C36_OneTrackedNodePerRecord ==
    importCall.variant = "importToFigma" =>
        LET settings == spread(DEFAULT_IMPORT_SETTINGS, importCall.options)
        IN  /\ Len(nodes) = Len(succeededRecords)
            /\ page = nodes
            /\ \A k \in 1..Len(nodes) :
                  LET node == created[nodes[k]]
                  IN  /\ node.name = succeededRecords[k].record.name
                      /\ IF settings.createComponents
                         THEN /\ node.type = "COMPONENT"
                              /\ Len(node.children) = 1
                              /\ created[node.children[1]].type = "RECTANGLE"
                              /\ \A j \in 1..Len(nodes) :
                                    nodes[j] # node.children[1]
                         ELSE node.type = "RECTANGLE"
            /\ Len(created) = IF settings.createComponents
                              THEN 2 * Len(nodes) ELSE Len(nodes)

\* Two records wrapped in components after one that failed: two components
\* tracked, four nodes created.
C36_Witness ==
    /\ importCall.variant = "importToFigma"
    /\ importCall.options.createComponents
    /\ importPc = "returned"
    /\ Len(itemThrown) = 3
    /\ itemThrown[1] # <<>>
    /\ Len(nodes) = 2
    /\ page = nodes
    /\ Len(created) = 4
    /\ created[nodes[1]].type = "COMPONENT"
    /\ created[nodes[2]].type = "COMPONENT"

\* The first round of an import of one record, up to its await.
firstRound(record) ==
    beginItem("importToFigma", <<record>>, emptyCanvasState, NoSinkFailure,
              [width |-> 0, height |-> 0])

MissingReference(record) ==
    Throw(Error(<<"No download URL available for ">> \o record.name))

\* C37: every record produced by a listing carries a download reference
\* that is a fixed template of its identifier, built without any extra
\* request, so the missing-reference failure of downloadFile is unreachable
\* for the records of a scan outcome; for a record without a download
\* reference downloadFile fails before issuing any request.
C37_DownloadReferenceFromIdentifier ==
    (scanPc = "returned" /\ scanOutcome[1].success) =>
        /\ Len(requests) = 2
        /\ \A k \in 1..Len(scanOutcome[1].images) :
              LET image == scanOutcome[1].images[k]
                  bare == [image EXCEPT !.downloadUrl = undefined]
              IN  /\ image.downloadUrl =
                        <<"https://drive.google.com/uc?export=download&id=", image.id>>
                  /\ ~hasNoDownloadUrl(image)
                  /\ firstRound(image).downloads = <<image.downloadUrl>>
                  /\ \A answer \in DownloadAnswers :
                        downloadFile(image, answer) # MissingReference(image)
                  /\ firstRound(bare).downloads = <<>>
                  /\ \A answer \in DownloadAnswers \cup {NoRequest} :
                        downloadFile(bare, answer) = MissingReference(bare)

\* A scan that returned two records.
C37_Witness ==
    /\ scanPc = "returned"
    /\ scanOutcome[1].success
    /\ Len(scanOutcome[1].images) = 2
    /\ Len(requests) = 2
    /\ ~hasNoDownloadUrl(scanOutcome[1].images[2])

====
